---- MODULE Spec2Model ----
(***************************************************************************)
(* A model of darklua's rule pipeline driver (frontend/worker.rs), of the  *)
(* instance-mode bundler's require inlining (rules/bundle/                  *)
(* roblox_require_mode) and of the Rojo sourcemap instance-path functions  *)
(* (rules/convert_require/rojo_sourcemap.rs).                              *)
(*                                                                         *)
(* The parts have their own variables and their own specifications; a      *)
(* specification leaves the variables of the other parts as they are:      *)
(*   Spec        the worker, advanced by an arbitrary caller               *)
(*   SpecLive    the worker, rules with a fixed acyclic required content,  *)
(*               no failure, a fair caller                                 *)
(*   SpecFixed   the worker, rules with any fixed required content, an     *)
(*               arbitrary caller                                          *)
(*   SpecBundle  the bundler, over every small require graph               *)
(*   SpecInline  the bundler, over graphs with calls it does not inline    *)
(*   SpecNames   the module names of a long bundle run                     *)
(*   SpecRojo    the sourcemap, over every small manifest                  *)
(*   SpecExclude an excluded require, over every small manifest            *)
(*   SpecLoad    the emitted module table at run time                      *)
(*   SpecCompute the compute_expression rule, over small expressions       *)
(*   SpecRegistry a source registry, over every sequence of intern calls   *)
(*   SpecSources the sources of an emitted source map                      *)
(*   SpecScope   the bundler's walk over the blocks of one file            *)
(*   SpecAncestor the sourcemap, instance paths that end with an Ancestor  *)
(*   SpecManifest the ids RojoSourcemap::initialize gives a parsed tree    *)
(*   SpecCollector the instance-alias collector, over small blocks         *)
(*   SpecParse   the two parsers of a require argument, over small blocks  *)
(*   SpecLines   the line-mapping segments the module builder records      *)
(***************************************************************************)
EXTENDS Integers, Sequences, FiniteSets, TLC

(***************************************************************************)
(* Bounds of the worker model.                                             *)
(***************************************************************************)
NItems == 2        \* work items handed to the worker
NRules == 2        \* rules of the configuration
MaxRequired == 2   \* longest list a rule's require_content returns
MaxFailures == 1   \* failing steps (read, parse, bundle, rule, write) in one run

Items == 1..NItems
RuleIdx == 0..(NRules - 1)

(***************************************************************************)
(* Paths.  A path is <<id, spelling>>: spelling 0 is the normalized form,  *)
(* spelling 1 another way to write the same file ("./src/a.lua").  The ids *)
(* 1..NItems are the sources of the work items; ExternalId is a file that  *)
(* is the source of no work item.                                          *)
(***************************************************************************)
ExternalId == NItems + 1
PathIds == 1..ExternalId
RawPaths == PathIds \X {0, 1}

NormalizePath(p) == <<p[1], 0>>

Source(w) == <<w, 1>>
Output(w) == <<"out", w>>
SourcemapOutput == <<"map", 0>>
OutPaths == {Output(w) : w \in Items} \cup {SourcemapOutput}

PathLess(p, q) == p[1] < q[1] \/ (p[1] = q[1] /\ p[2] < q[2])

RECURSIVE InsertSorted(_, _)
InsertSorted(p, s) ==
    IF s = <<>> THEN <<p>>
    ELSE IF PathLess(Head(s), p) THEN <<Head(s)>> \o InsertSorted(p, Tail(s))
    ELSE <<p>> \o s

RECURSIVE SortPaths(_)
SortPaths(s) == IF s = <<>> THEN <<>> ELSE InsertSorted(Head(s), SortPaths(Tail(s)))

\* Vec::dedup: removes consecutive repeated elements
RECURSIVE Dedup(_)
Dedup(s) ==
    IF Len(s) <= 1 THEN s
    ELSE IF s[1] = s[2] THEN Dedup(Tail(s))
    ELSE <<s[1]>> \o Dedup(Tail(s))

MapNormalize(s) == [k \in 1..Len(s) |-> NormalizePath(s[k])]

Range(s) == {s[k] : k \in 1..Len(s)}

\* an Option
None == [some |-> FALSE]
Some(v) == [some |-> TRUE, value |-> v]
Last(s) == s[Len(s)]
Front(s) == SubSeq(s, 1, Len(s) - 1)
Reverse(s) == [k \in 1..Len(s) |-> s[Len(s) + 1 - k]]

\* the position of the first x in s, 0 when there is none
IndexOf(s, x) == IF \E k \in 1..Len(s) : s[k] = x
                 THEN CHOOSE k \in 1..Len(s) : s[k] = x /\ \A l \in 1..(k - 1) : s[l] # x
                 ELSE 0

RequiredContentUnfiltered(raw, normalized_source) ==
    Dedup(SortPaths(MapNormalize(raw)))

RequiredContentUnsorted(raw, normalized_source) ==
    Dedup(SelectSeq(MapNormalize(raw), LAMBDA p : p # normalized_source))

\* worker.rs 333-347: normalize, drop the item's own path, sort, dedup
RequiredContent(raw, normalized_source) ==
    Dedup(SortPaths(SelectSeq(MapNormalize(raw), LAMBDA p : p # normalized_source)))

RawLists == UNION {[1..n -> RawPaths] : n \in 0..MaxRequired}

(***************************************************************************)
(* Worker state.                                                           *)
(***************************************************************************)
VARIABLES
    cfg,               \* the Configuration record read by setup_worker
    requires,          \* what each rule's require_content returns (an input)
    status,            \* work_item.status, per item
    progress,          \* the WorkProgress of an InProgress item
    deps,              \* work_item.external_file_dependencies, per item
    cache,             \* the WorkCache: links source -> output, parsed blocks
    written,           \* Resources: what was written at each output path
    registry,          \* the shared SourceRegistry
    known_aliases,     \* the process-wide instance-alias set
    cached_bundler,    \* Worker::cached_bundler is Some
    running,           \* the item advance_work is working on, 0 when idle
    pc,                \* where advance_work stands
    rule_index,        \* `index` of the loop of apply_rules
    required_content,  \* the local `required_content` of the loop
    called_as,         \* the status the item had when advance_work was last entered
    result,            \* what the last call of advance_work returned
    failures           \* failing steps so far

workerVars == <<cfg, requires, status, progress, deps, cache, written, registry,
                known_aliases, cached_bundler, running, pc, rule_index,
                required_content, called_as, result, failures>>

(***************************************************************************)
(* Bundler state (RequireRobloxProcessor, bundle/roblox_require_mode).     *)
(***************************************************************************)
VARIABLES
    calls,                    \* an input: the files each file's require calls resolve to
    shapes,                   \* an input: what each of these calls looks like
    excluded,                 \* an input: the files the exclude globs match
    broken,                   \* an input: the files that cannot be loaded, and why
    frames,                   \* the blocks being visited: process_block, then each require_resource
    require_stack,            \* RequireRobloxProcessor::require_stack
    module_cache,             \* RequireRobloxProcessor::module_cache
    skip_module_paths,        \* RequireRobloxProcessor::skip_module_paths
    errors,                   \* RequireRobloxProcessor::errors
    module_definitions,       \* BuildModuleDefinitions::module_definitions
    module_name_permutator,   \* BuildModuleDefinitions::module_name_permutator
    replaced,                 \* what each visited require call has become
    loads,                    \* how often each file's resource was read
    entry_header,             \* what BuildModuleDefinitions::apply put before the entry block
    bundle_result             \* what process_block returned

bundleInputs == <<calls, shapes, excluded, broken>>

bundleVars == <<calls, shapes, excluded, broken, frames, require_stack, module_cache,
                skip_module_paths, errors, module_definitions, module_name_permutator,
                replaced, loads, entry_header, bundle_result>>

(***************************************************************************)
(* Sourcemap state (RojoSourcemap, convert_require/rojo_sourcemap.rs).     *)
(***************************************************************************)
VARIABLES
    sourcemap,       \* the RojoSourcemap: is_datamodel and the initialized nodes, by id
    from_file,       \* the file the path starts from
    target_file,     \* the file the path leads to
    instance_path,   \* what get_instance_path returned
    resolved_file,   \* what get_file_from_instance_path returned
    rojo_pc          \* "parsed", then "path", then "file"

rojoVars == <<sourcemap, from_file, target_file, instance_path, resolved_file, rojo_pc>>

(***************************************************************************)
(* The excluded require (try_inline_call, bundle/roblox_require_mode).     *)
(***************************************************************************)
VARIABLES
    rewritten        \* the argument try_inline_call gave the call of an excluded file

excludeVars == <<rewritten>>

(***************************************************************************)
(* The emitted module table at run time (build_modules_table,              *)
(* bundle/roblox_require_mode/module_definitions.rs).                      *)
(***************************************************************************)
VARIABLES
    modules_cache,   \* the cache field of the modules table: module -> entry
    call_stack,      \* the modules whose body function is running, innermost last
    load_calls,      \* module -> how many times load was called with it
    invocations,     \* module -> how many times its body function was invoked
    completions,     \* module -> how many of these invocations returned
    content,         \* module -> what its first completed invocation returned
    returned         \* what the last load that returned was called with and gave

runtimeVars == <<modules_cache, call_stack, load_calls, invocations, completions,
                 content, returned>>

(***************************************************************************)
(* The compute_expression rule (rules/compute_expression.rs).              *)
(***************************************************************************)
VARIABLES
    expression,      \* the expression process_expression is given
    processed        \* what process_expression left in its place

computeVars == <<expression, processed>>

(***************************************************************************)
(* A source registry of its own (utils/source_registry.rs).                *)
(***************************************************************************)
VARIABLES
    source_registry, \* a SourceRegistry
    interned         \* the path the last call of intern was given and the id it returned

internVars == <<source_registry, interned>>

(***************************************************************************)
(* The sources of an emitted source map (apply_rules, frontend/worker.rs). *)
(***************************************************************************)
VARIABLES
    source_paths,    \* an input: the paths of the bundle, as the bundler hands them over
    relative_base,   \* an input: the base the source names are made relative to
    map_sources      \* the `sources` array of the source map builder

sourcesVars == <<source_paths, relative_base, map_sources>>

(***************************************************************************)
(* The processor's walk over the blocks of one file (RequireRoblox-        *)
(* Processor, rules/bundle/roblox_require_mode/mod.rs).                    *)
(***************************************************************************)
VARIABLES
    file_block,          \* an input: the blocks of the file, their locals and statements
    visit_stack,         \* the visitor's position: the blocks it is in and the next statement of each
    current_block_clone, \* the block the processor resolves identifiers in first
    root_block_clone,    \* the root block of the file
    resolved_paths       \* per require call visited, what its identifier was resolved to

scopeVars == <<file_block, visit_stack, current_block_clone, root_block_clone, resolved_paths>>

(***************************************************************************)
(* A manifest as it is parsed, and what initialize gave its nodes          *)
(* (RojoSourcemapNode::initialize, convert_require/rojo_sourcemap.rs).     *)
(***************************************************************************)
VARIABLES
    manifest,        \* the parsed tree: names, file paths and children of each node
    initialized      \* the id and the parent_id initialize gave each node of the tree

manifestVars == <<manifest, initialized>>

(***************************************************************************)
(* The file the bundler is working in (RequireRobloxProcessor::source,     *)
(* bundle/roblox_require_mode/mod.rs); its snapshots current_block_clone   *)
(* and root_block_clone are declared below with the scopes.                *)
(***************************************************************************)
VARIABLES
    self_source      \* RequireRobloxProcessor::source

processorVars == <<self_source>>

(***************************************************************************)
(* The instance-alias collector (InstanceAliasCollector, frontend/         *)
(* worker.rs) run over one block.                                          *)
(***************************************************************************)
VARIABLES
    collector_block, \* the block the collector visits
    collected        \* InstanceAliasCollector.0 when the visit is over

collectorVars == <<collector_block, collected>>

(***************************************************************************)
(* The argument of a require call parsed to an instance path by the        *)
(* bundler (bundle/roblox_require_mode/mod.rs) and by the convert_require  *)
(* rule (convert_require/roblox_require_mode.rs).                          *)
(***************************************************************************)
VARIABLES
    parse_block,      \* the local statements of the block the call stands in
    require_argument, \* the single argument of the require call
    bundle_path,      \* what the bundler's parse_expression_to_instance_path gave
    convert_path      \* what the convert_require rule's gave

parseVars == <<parse_block, require_argument, bundle_path, convert_path>>

\* BuildModuleDefinitions::apply and the lines of the blocks it puts together
VARIABLES
    type_lines,       \* an input: rename_type_declaration.get_type_lines()
    definition_lines, \* an input: first and total line of each module's block, in insertion order
    entry_lines,      \* an input: first and total line of the entry block
    line_mapping,     \* the segments the context was given, in the order it got them
    shifted           \* the shift ShiftTokenLine gave each block, the entry block last

linesVars == <<type_lines, definition_lines, entry_lines, line_mapping, shifted>>

vars == <<workerVars, bundleVars, rojoVars, excludeVars, runtimeVars, computeVars, internVars, sourcesVars, scopeVars, manifestVars, processorVars, collectorVars, parseVars, linesVars>>

\* what the actions of one part leave alone
notWorker == <<bundleVars, rojoVars, excludeVars, runtimeVars, computeVars, internVars, sourcesVars, scopeVars, manifestVars, processorVars, collectorVars, parseVars, linesVars>>
notBundler == <<workerVars, rojoVars, excludeVars, runtimeVars, computeVars, internVars, sourcesVars, scopeVars, manifestVars, processorVars, collectorVars, parseVars, linesVars>>
notSourcemap == <<workerVars, bundleVars, excludeVars, runtimeVars, computeVars, internVars, sourcesVars, scopeVars, manifestVars, processorVars, collectorVars, parseVars, linesVars>>
notRuntime == <<workerVars, bundleVars, rojoVars, excludeVars, computeVars, internVars, sourcesVars, scopeVars, manifestVars, processorVars, collectorVars, parseVars, linesVars>>
notCompute == <<workerVars, bundleVars, rojoVars, excludeVars, runtimeVars, internVars, sourcesVars, scopeVars, manifestVars, processorVars, collectorVars, parseVars, linesVars>>
notExclude == <<workerVars, bundleVars, runtimeVars, computeVars, internVars, sourcesVars, scopeVars, manifestVars, processorVars, collectorVars, parseVars, linesVars>>
notIntern == <<workerVars, bundleVars, rojoVars, excludeVars, runtimeVars, computeVars, sourcesVars, scopeVars, manifestVars, processorVars, collectorVars, parseVars, linesVars>>
notSources == <<workerVars, bundleVars, rojoVars, excludeVars, runtimeVars, computeVars, internVars, scopeVars, manifestVars, processorVars, collectorVars, parseVars, linesVars>>
notScope == <<workerVars, bundleVars, rojoVars, excludeVars, runtimeVars, computeVars, internVars, sourcesVars, manifestVars, processorVars, collectorVars, parseVars, linesVars>>
notManifest == <<workerVars, bundleVars, rojoVars, excludeVars, runtimeVars, computeVars, internVars, sourcesVars, scopeVars, processorVars, collectorVars, parseVars, linesVars>>
notProcessor == <<workerVars, bundleVars, rojoVars, excludeVars, runtimeVars, computeVars, internVars, sourcesVars, scopeVars, manifestVars, collectorVars, parseVars, linesVars>>
notCollector == <<workerVars, bundleVars, rojoVars, excludeVars, runtimeVars, computeVars, internVars, sourcesVars, scopeVars, manifestVars, processorVars, parseVars, linesVars>>
notParse == <<workerVars, bundleVars, rojoVars, excludeVars, runtimeVars, computeVars, internVars, sourcesVars, scopeVars, manifestVars, processorVars, collectorVars, linesVars>>
notLines == <<workerVars, bundleVars, rojoVars, excludeVars, runtimeVars, computeVars, internVars, sourcesVars, scopeVars, manifestVars, processorVars, collectorVars, parseVars>>

\* the parts of the model a specification does not run stay as they are
WorkerUnused ==
    /\ cfg = 0 /\ requires = 0 /\ status = 0 /\ progress = 0 /\ deps = 0 /\ cache = 0
    /\ written = 0 /\ registry = 0 /\ known_aliases = 0 /\ cached_bundler = 0
    /\ running = 0 /\ pc = 0 /\ rule_index = 0 /\ required_content = 0
    /\ called_as = 0 /\ result = 0 /\ failures = 0

BundlerUnused ==
    /\ calls = 0 /\ broken = 0 /\ frames = 0 /\ require_stack = 0 /\ module_cache = 0
    /\ skip_module_paths = 0 /\ errors = 0 /\ module_definitions = 0
    /\ module_name_permutator = 0 /\ replaced = 0 /\ loads = 0 /\ bundle_result = 0
    /\ shapes = 0 /\ excluded = 0 /\ entry_header = 0

SourcemapUnused ==
    /\ sourcemap = 0 /\ from_file = 0 /\ target_file = 0 /\ instance_path = 0
    /\ resolved_file = 0 /\ rojo_pc = 0

ExcludeUnused == rewritten = 0

RuntimeUnused ==
    /\ modules_cache = 0 /\ call_stack = 0 /\ load_calls = 0 /\ invocations = 0
    /\ completions = 0 /\ content = 0 /\ returned = 0

ComputeUnused == expression = 0 /\ processed = 0

InternUnused == source_registry = 0 /\ interned = 0

SourcesUnused == source_paths = 0 /\ relative_base = 0 /\ map_sources = 0

ScopeUnused == file_block = 0 /\ visit_stack = 0 /\ current_block_clone = 0 /\ root_block_clone = 0 /\ resolved_paths = 0

ManifestUnused == manifest = 0 /\ initialized = 0

ProcessorUnused == self_source = 0

CollectorUnused == collector_block = 0 /\ collected = 0

ParseUnused == parse_block = 0 /\ require_argument = 0 /\ bundle_path = 0 /\ convert_path = 0

LinesUnused == type_lines = 0 /\ definition_lines = 0 /\ entry_lines = 0 /\ line_mapping = 0 /\ shifted = 0

NoBlock == [src |-> 0, applied |-> <<>>, bundled |-> FALSE, cleaned |-> FALSE]
NoProgress == [next_rule |-> 0, required_content |-> <<>>, block |-> NoBlock,
               timer |-> "none"]
NoFile == [kind |-> "none", block |-> NoBlock]
NoResult == [item |-> 0, kind |-> "none", detail |-> <<>>]
Ok(w) == [item |-> w, kind |-> "Ok", detail |-> <<>>]
Err(w, kind, detail) == [item |-> w, kind |-> kind, detail |-> detail]

RuleName(i) == <<"rule", i>>

\* the configurations: a source map is a setting of the bundle configuration
Configurations ==
    {c \in [pure : BOOLEAN, bundle : BOOLEAN, sourcemap : BOOLEAN] : c.sourcemap => c.bundle}

\* worker.rs 237-242
UseSharedRegistry == cfg.sourcemap

(***************************************************************************)
(* utils/source_registry.rs                                                *)
(***************************************************************************)
EmptyRegistry == [path_to_id |-> <<>>, id_to_path |-> <<>>]

RegistryKnows(reg, path) == \E k \in 1..Len(reg.path_to_id) : reg.path_to_id[k][1] = path

InternAgain(reg, path) ==
    [path_to_id |-> Append(reg.path_to_id, <<path, Len(reg.id_to_path)>>),
     id_to_path |-> Append(reg.id_to_path, path)]

\* source_registry.rs 17-31: the registry intern leaves
Intern(reg, path) ==
    IF RegistryKnows(reg, path) THEN reg
    ELSE [path_to_id |-> Append(reg.path_to_id, <<path, Len(reg.id_to_path)>>),
          id_to_path |-> Append(reg.id_to_path, path)]

\* source_registry.rs 39-41
GetId(reg, path) ==
    IF RegistryKnows(reg, path)
    THEN Some((CHOOSE e \in Range(reg.path_to_id) : e[1] = path)[2])
    ELSE None

\* source_registry.rs 33-37
GetPath(reg, id) ==
    IF id < Len(reg.id_to_path) THEN Some(reg.id_to_path[id + 1]) ELSE None

\* source_registry.rs 17-31: the id intern returns
InternId(reg, path) ==
    IF RegistryKnows(reg, path) THEN GetId(reg, path).value ELSE Len(reg.id_to_path)

(***************************************************************************)
(* The instance aliases a block declares: the collector of worker.rs 26-107*)
(* run over the block.  A block is known here by its source only, and the  *)
(* aliases of different sources are kept apart.                            *)
(***************************************************************************)
CollectAliases(block) == {<<"alias", block.src>>}

(***************************************************************************)
(* The work cache (frontend/work_cache.rs).                                *)
(***************************************************************************)
EmptyCache == [links |-> {}, blocks |-> {}]
CacheContains(path) == \E l \in cache.links : l[1] = path
LinkSourceToOutput(c, source, output) ==
    [c EXCEPT !.links = {l \in c.links : l[1] # source} \cup {<<source, output>>}]
GetBlocks(c, paths) == [c EXCEPT !.blocks = c.blocks \cup Range(paths)]

AnyCached(paths) == \E k \in 1..Len(paths) : CacheContains(paths[k])

\* worker.rs 350-352
AllCached(paths) == \A k \in 1..Len(paths) : CacheContains(paths[k])

(***************************************************************************)
(* What a rule's require_content returns for an item: any list when the    *)
(* rules are left open, the configured list otherwise.                     *)
(***************************************************************************)
OpenRequires == [fixed |-> FALSE, of |-> <<>>]
RawChoices(w, i) == IF requires.fixed THEN {requires.of[w][i + 1]} ELSE RawLists

WorkerInit ==
    /\ cfg \in Configurations
    /\ status = [w \in Items |-> "NotStarted"]
    /\ progress = [w \in Items |-> NoProgress]
    /\ deps = [w \in Items |-> {}]
    /\ cache = EmptyCache
    /\ written = [p \in OutPaths |-> NoFile]
    /\ registry = EmptyRegistry
    /\ known_aliases = {}
    /\ cached_bundler = FALSE
    /\ running = 0
    /\ pc = "idle"
    /\ rule_index = 0
    /\ required_content = <<>>
    /\ called_as = "none"
    /\ result = NoResult

Idle == running = 0 /\ pc = "idle"

\* the loop of apply_rules goes on with rule i, or leaves the loop
LoopAt(i) == IF i < NRules THEN "query" ELSE "generate"

Return(r) ==
    /\ running' = 0
    /\ pc' = "idle"
    /\ rule_index' = 0
    /\ required_content' = <<>>
    /\ result' = r

(***************************************************************************)
(* advance_work, status NotStarted (worker.rs 222-277): read the source,   *)
(* parse it, collect the aliases, bundle, become InProgress and enter      *)
(* apply_rules.                                                            *)
(***************************************************************************)
ParsedBlock(w) == [src |-> w, applied |-> <<>>, bundled |-> FALSE, cleaned |-> FALSE]
BundledBlock(w) == [ParsedBlock(w) EXCEPT !.bundled = cfg.bundle]

AliasesAfterParse(w) == IF cfg.pure THEN CollectAliases(ParsedBlock(w)) ELSE {}
RegistryAfterParse(w) == IF UseSharedRegistry THEN Intern(registry, Source(w)) ELSE registry
BundleDeps == IF cfg.bundle THEN {<<"bundle", 0>>} ELSE {}

AdvanceNotStarted(w) ==
    /\ Idle
    /\ status[w] = "NotStarted"
    /\ registry' = RegistryAfterParse(w)
    /\ known_aliases' = AliasesAfterParse(w)
    /\ cached_bundler' = (cached_bundler \/ cfg.bundle)
    /\ deps' = [deps EXCEPT ![w] = @ \cup BundleDeps]
    /\ status' = [status EXCEPT ![w] = "InProgress"]
    /\ progress' = [progress EXCEPT ![w] =
            [next_rule |-> 0, required_content |-> <<>>, block |-> BundledBlock(w),
             timer |-> "running"]]
    /\ running' = w
    /\ pc' = LoopAt(0)
    /\ rule_index' = 0
    /\ required_content' = <<>>
    /\ called_as' = "NotStarted"
    /\ UNCHANGED <<cfg, requires, cache, written, result, failures>>
    /\ UNCHANGED notWorker

\* resources.get fails: nothing was done yet (worker.rs 225)
ReadFails(w) ==
    /\ Idle
    /\ status[w] = "NotStarted"
    /\ failures < MaxFailures
    /\ called_as' = "NotStarted"
    /\ failures' = failures + 1
    /\ Return(Err(w, "ResourceNotFound", <<Source(w)>>))
    /\ UNCHANGED <<cfg, requires, status, progress, deps, cache, written, registry,
                   known_aliases, cached_bundler>>
    /\ UNCHANGED notWorker

\* the parser fails: the source was interned before (worker.rs 244-257)
ParseFails(w) ==
    /\ Idle
    /\ status[w] = "NotStarted"
    /\ failures < MaxFailures
    /\ called_as' = "NotStarted"
    /\ failures' = failures + 1
    /\ registry' = RegistryAfterParse(w)
    /\ Return(Err(w, "ParserError", <<Source(w)>>))
    /\ UNCHANGED <<cfg, requires, status, progress, deps, cache, written,
                   known_aliases, cached_bundler>>
    /\ UNCHANGED notWorker

\* as BundleFails, but the item is InProgress before the bundler runs
BundleFailsInProgress(w) ==
    /\ Idle
    /\ status[w] = "NotStarted"
    /\ cfg.bundle
    /\ failures < MaxFailures
    /\ called_as' = "NotStarted"
    /\ failures' = failures + 1
    /\ registry' = RegistryAfterParse(w)
    /\ known_aliases' = AliasesAfterParse(w)
    /\ cached_bundler' = TRUE
    /\ deps' = [deps EXCEPT ![w] = @ \cup BundleDeps]
    /\ status' = [status EXCEPT ![w] = "InProgress"]
    /\ progress' = [progress EXCEPT ![w] =
            [next_rule |-> 0, required_content |-> <<>>, block |-> ParsedBlock(w),
             timer |-> "paused"]]
    /\ Return(Err(w, "BundleError", <<Source(w)>>))
    /\ UNCHANGED <<cfg, requires, cache, written>>
    /\ UNCHANGED notWorker

\* the bundler fails: its dependencies are kept (worker.rs 272, 720-737)
BundleFails(w) ==
    /\ Idle
    /\ status[w] = "NotStarted"
    /\ cfg.bundle
    /\ failures < MaxFailures
    /\ called_as' = "NotStarted"
    /\ failures' = failures + 1
    /\ registry' = RegistryAfterParse(w)
    /\ known_aliases' = AliasesAfterParse(w)
    /\ cached_bundler' = TRUE
    /\ deps' = [deps EXCEPT ![w] = @ \cup BundleDeps]
    /\ Return(Err(w, "BundleError", <<Source(w)>>))
    /\ UNCHANGED <<cfg, requires, status, progress, cache, written>>
    /\ UNCHANGED notWorker

\* as AdvanceInProgress, but the loop goes on after the rule the item was
\* suspended at
AdvanceInProgressPastRule(w) ==
    /\ Idle
    /\ status[w] = "InProgress"
    /\ progress' = [progress EXCEPT ![w].timer = "running"]
    /\ running' = w
    /\ pc' = LoopAt(IF progress[w].required_content = <<>> THEN progress[w].next_rule
                    ELSE progress[w].next_rule + 1)
    /\ rule_index' = IF progress[w].required_content = <<>> THEN progress[w].next_rule
                     ELSE progress[w].next_rule + 1
    /\ required_content' = <<>>
    /\ called_as' = "InProgress"
    /\ UNCHANGED <<cfg, requires, status, deps, cache, written, registry,
                   known_aliases, cached_bundler, result, failures>>
    /\ UNCHANGED notWorker

(***************************************************************************)
(* advance_work, status InProgress (worker.rs 278, 302-320): apply_rules   *)
(* starts the duration counter and resumes the loop at next_rule.          *)
(***************************************************************************)
AdvanceInProgress(w) ==
    /\ Idle
    /\ status[w] = "InProgress"
    /\ progress' = [progress EXCEPT ![w].timer = "running"]
    /\ running' = w
    /\ pc' = LoopAt(progress[w].next_rule)
    /\ rule_index' = progress[w].next_rule
    /\ required_content' = <<>>
    /\ called_as' = "InProgress"
    /\ UNCHANGED <<cfg, requires, status, deps, cache, written, registry,
                   known_aliases, cached_bundler, result, failures>>
    /\ UNCHANGED notWorker

\* as AdvanceDone, but the item's source is interned again
AdvanceDoneInterns(w) ==
    /\ Idle
    /\ status[w] = "Done"
    /\ result' = Ok(w)
    /\ called_as' = "Done"
    /\ registry' = Intern(registry, Source(w))
    /\ UNCHANGED <<cfg, requires, status, progress, deps, cache, written,
                   known_aliases, cached_bundler, running, pc, rule_index,
                   required_content, failures>>
    /\ UNCHANGED notWorker

(***************************************************************************)
(* advance_work, status Done (worker.rs 279)                               *)
(***************************************************************************)
AdvanceDone(w) ==
    /\ Idle
    /\ status[w] = "Done"
    /\ result' = Ok(w)
    /\ called_as' = "Done"
    /\ UNCHANGED <<cfg, requires, status, progress, deps, cache, written, registry,
                   known_aliases, cached_bundler, running, pc, rule_index,
                   required_content, failures>>
    /\ UNCHANGED notWorker

(***************************************************************************)
(* One turn of the loop of apply_rules, first half (worker.rs 321-347):    *)
(* ask the rule for its required content.                                  *)
(***************************************************************************)
QueryRule ==
    /\ running # 0
    /\ pc = "query"
    /\ \E raw \in RawChoices(running, rule_index) :
          required_content' = RequiredContent(raw, NormalizePath(Source(running)))
    /\ pc' = "decide"
    /\ UNCHANGED <<cfg, requires, status, progress, deps, cache, written, registry,
                   known_aliases, cached_bundler, running, rule_index, called_as, result,
                   failures>>
    /\ UNCHANGED notWorker

MustSuspendWhenNoneCached(paths) == paths # <<>> /\ ~AnyCached(paths)

MustSuspendWhenRequired(paths) == paths # <<>>

\* worker.rs 349-353, 359: the required content is not all there
MustSuspend(paths) == paths # <<>> /\ ~AllCached(paths)

\* as SuspendWork, but the blocks already in the cache are loaded first
SuspendWorkAfterLoading ==
    /\ running # 0
    /\ pc = "decide"
    /\ MustSuspend(required_content)
    /\ cache' = [cache EXCEPT !.blocks = @ \cup {p \in Range(required_content) : CacheContains(p)}]
    /\ progress' = [progress EXCEPT ![running] =
            [@ EXCEPT !.timer = "paused",
                      !.next_rule = rule_index,
                      !.required_content = required_content]]
    /\ Return(Ok(running))
    /\ UNCHANGED <<cfg, requires, status, deps, written, registry,
                   known_aliases, cached_bundler, called_as, failures>>
    /\ UNCHANGED notWorker

(***************************************************************************)
(* Second half, the work is queued (worker.rs 359-383)                     *)
(***************************************************************************)
SuspendWork ==
    /\ running # 0
    /\ pc = "decide"
    /\ MustSuspend(required_content)
    /\ progress' = [progress EXCEPT ![running] =
            [@ EXCEPT !.timer = "paused",
                      !.next_rule = rule_index,
                      !.required_content = required_content]]
    /\ Return(Ok(running))
    /\ UNCHANGED <<cfg, requires, status, deps, cache, written, registry,
                   known_aliases, cached_bundler, called_as, failures>>
    /\ UNCHANGED notWorker

RuleDeps(i) == {<<"rule", i>>}

\* as AliasesBeforeRule, but the set of the last parse is kept
AliasesKeptFromParse(w) == known_aliases

AliasesBeforeRule(w) ==
    IF cfg.pure THEN CollectAliases(progress[w].block) ELSE known_aliases

CacheBeforeRule == IF required_content # <<>> THEN GetBlocks(cache, required_content) ELSE cache

Applied(block, i, ok) == [block EXCEPT !.applied = Append(@, [rule |-> i, ok |-> ok])]

(***************************************************************************)
(* Second half, the rule is applied and succeeds (worker.rs 349-358,       *)
(* 386-425)                                                                *)
(***************************************************************************)
ApplyRule ==
    /\ running # 0
    /\ pc = "decide"
    /\ ~MustSuspend(required_content)
    /\ cache' = CacheBeforeRule
    /\ known_aliases' = AliasesBeforeRule(running)
    /\ progress' = [progress EXCEPT ![running].block = Applied(@, rule_index, TRUE)]
    /\ deps' = [deps EXCEPT ![running] = @ \cup RuleDeps(rule_index)]
    /\ rule_index' = rule_index + 1
    /\ pc' = LoopAt(rule_index + 1)
    /\ required_content' = <<>>
    /\ UNCHANGED <<cfg, requires, status, written, registry, cached_bundler, running,
                   called_as, result, failures>>
    /\ UNCHANGED notWorker

RuleErrorOfFirstRule(w, i) == Err(w, "RuleError", <<Source(w), RuleName(0), 0>>)

\* worker.rs 399-400: DarkluaError::rule_error(source, rule, index, rule_error)
RuleError(w, i) == Err(w, "RuleError", <<Source(w), RuleName(i), i>>)

\* as ApplyRuleFails, but the error is returned before the dependencies of
\* the context are taken
ApplyRuleFailsAtOnce ==
    /\ running # 0
    /\ pc = "decide"
    /\ ~MustSuspend(required_content)
    /\ failures < MaxFailures
    /\ failures' = failures + 1
    /\ cache' = CacheBeforeRule
    /\ known_aliases' = AliasesBeforeRule(running)
    /\ progress' = [progress EXCEPT ![running].block = Applied(@, rule_index, FALSE)]
    /\ Return(RuleError(running, rule_index))
    /\ UNCHANGED <<cfg, requires, status, deps, written, registry, cached_bundler, called_as>>
    /\ UNCHANGED notWorker

(***************************************************************************)
(* Second half, the rule is applied and fails (worker.rs 386-416)          *)
(***************************************************************************)
ApplyRuleFails ==
    /\ running # 0
    /\ pc = "decide"
    /\ ~MustSuspend(required_content)
    /\ failures < MaxFailures
    /\ failures' = failures + 1
    /\ cache' = CacheBeforeRule
    /\ known_aliases' = AliasesBeforeRule(running)
    /\ progress' = [progress EXCEPT ![running].block = Applied(@, rule_index, FALSE)]
    /\ deps' = [deps EXCEPT ![running] = @ \cup RuleDeps(rule_index)]
    /\ Return(RuleError(running, rule_index))
    /\ UNCHANGED <<cfg, requires, status, written, registry, cached_bundler, called_as>>
    /\ UNCHANGED notWorker

CleanedBlock(w) == [progress[w].block EXCEPT !.cleaned = cfg.pure]

DebugView(w) == [kind |-> "ast", block |-> CleanedBlock(w)]
LuaCode(w) == [kind |-> "code", block |-> CleanedBlock(w)]
SourceMap(w) == [kind |-> "map", block |-> CleanedBlock(w)]

LinkedAtRawSource(w) == LinkSourceToOutput(cache, Source(w), Output(w))

\* worker.rs 675-676
Linked(w) == LinkSourceToOutput(cache, NormalizePath(Source(w)), Output(w))

\* as Generate, but the code is not written when the debugging view was
GenerateAfterDebugView ==
    /\ running # 0
    /\ pc = "generate"
    /\ written' = [written EXCEPT ![Output(running)] = DebugView(running)]
    /\ cache' = Linked(running)
    /\ status' = [status EXCEPT ![running] = "Done"]
    /\ progress' = [progress EXCEPT ![running] = NoProgress]
    /\ Return(Ok(running))
    /\ UNCHANGED <<cfg, requires, deps, registry, known_aliases, cached_bundler, called_as,
                   failures>>
    /\ UNCHANGED notWorker

\* as Generate, but a source map that could not be written is an error of
\* the work item
GenerateMapRequired ==
    /\ running # 0
    /\ pc = "generate"
    /\ \E map_written \in (IF cfg.sourcemap THEN BOOLEAN ELSE {FALSE}) :
          IF cfg.sourcemap /\ ~map_written
          THEN /\ progress' = [progress EXCEPT ![running].block = CleanedBlock(running)]
               /\ Return(Err(running, "WriteError", <<SourcemapOutput>>))
               /\ UNCHANGED <<status, cache, written>>
          ELSE /\ written' = [written EXCEPT
                          ![SourcemapOutput] = IF map_written THEN SourceMap(running) ELSE @,
                          ![Output(running)] = LuaCode(running)]
               /\ cache' = Linked(running)
               /\ status' = [status EXCEPT ![running] = "Done"]
               /\ progress' = [progress EXCEPT ![running] = NoProgress]
               /\ Return(Ok(running))
    /\ UNCHANGED <<cfg, requires, deps, registry, known_aliases, cached_bundler, called_as,
                   failures>>
    /\ UNCHANGED notWorker

(***************************************************************************)
(* After the last rule (worker.rs 427-680): the cleanup pass, the code     *)
(* generation with its source map, the write of the output, the link in    *)
(* the work cache, Done.  Whether the source map could be written changes  *)
(* nothing else (worker.rs 573-631).                                       *)
(***************************************************************************)
Generate ==
    /\ running # 0
    /\ pc = "generate"
    /\ \E map_written \in (IF cfg.sourcemap THEN BOOLEAN ELSE {FALSE}) :
          written' = [written EXCEPT
                          ![SourcemapOutput] = IF map_written THEN SourceMap(running) ELSE @,
                          ![Output(running)] = LuaCode(running)]
    /\ cache' = Linked(running)
    /\ status' = [status EXCEPT ![running] = "Done"]
    /\ progress' = [progress EXCEPT ![running] = NoProgress]
    /\ Return(Ok(running))
    /\ UNCHANGED <<cfg, requires, deps, registry, known_aliases, cached_bundler, called_as,
                   failures>>
    /\ UNCHANGED notWorker

\* worker.rs 450-457: the AST debugging view is written in a test build and in a
\* debug build that logs at trace level; its write fails
DebugViewWriteFails ==
    /\ running # 0
    /\ pc = "generate"
    /\ failures < MaxFailures
    /\ failures' = failures + 1
    /\ progress' = [progress EXCEPT ![running].block = CleanedBlock(running)]
    /\ Return(Err(running, "WriteError", <<Output(running)>>))
    /\ UNCHANGED <<cfg, requires, status, deps, cache, written, registry, known_aliases,
                   cached_bundler, called_as>>
    /\ UNCHANGED notWorker

\* worker.rs 673: the write of the generated code fails
OutputWriteFails ==
    /\ running # 0
    /\ pc = "generate"
    /\ failures < MaxFailures
    /\ failures' = failures + 1
    /\ \E map_written \in (IF cfg.sourcemap THEN BOOLEAN ELSE {FALSE}), debug_view \in BOOLEAN :
          written' = [written EXCEPT
                          ![SourcemapOutput] = IF map_written THEN SourceMap(running) ELSE @,
                          ![Output(running)] = IF debug_view THEN DebugView(running) ELSE @]
    /\ progress' = [progress EXCEPT ![running].block = CleanedBlock(running)]
    /\ Return(Err(running, "WriteError", <<Output(running)>>))
    /\ UNCHANGED <<cfg, requires, status, deps, cache, registry, known_aliases,
                   cached_bundler, called_as>>
    /\ UNCHANGED notWorker

(***************************************************************************)
(* The worker under any caller: whenever advance_work has returned, any    *)
(* item may be advanced next.                                              *)
(***************************************************************************)
Init ==
    /\ WorkerInit
    /\ requires = OpenRequires
    /\ failures = 0
    /\ BundlerUnused
    /\ SourcemapUnused
    /\ ExcludeUnused
    /\ RuntimeUnused
    /\ ComputeUnused
    /\ InternUnused
    /\ SourcesUnused
    /\ ScopeUnused
    /\ ManifestUnused
    /\ ProcessorUnused
    /\ CollectorUnused
    /\ ParseUnused
    /\ LinesUnused

Next ==
    \/ \E w \in Items : AdvanceNotStarted(w)
    \/ \E w \in Items : ReadFails(w)
    \/ \E w \in Items : ParseFails(w)
    \/ \E w \in Items : BundleFails(w)
    \/ \E w \in Items : AdvanceInProgress(w)
    \/ \E w \in Items : AdvanceDone(w)
    \/ QueryRule
    \/ SuspendWork
    \/ ApplyRule
    \/ ApplyRuleFails
    \/ Generate
    \/ DebugViewWriteFails
    \/ OutputWriteFails

Spec == Init /\ [][Next]_vars

(***************************************************************************)
(* The worker under a fair caller, for the claims about progress.  Every   *)
(* rule's required content is fixed at the start, names sources of work    *)
(* items only, and the relation "an item requires another" has no cycle;   *)
(* no step fails.  The caller keeps advancing every item that is not Done  *)
(* (strong fairness: an item is advanced only between two calls), and a    *)
(* call that has begun runs to its return.                                 *)
(***************************************************************************)
ItemLists == UNION {[1..n -> {Source(w) : w \in Items}] : n \in 0..1}

RequiresItem(f, w, v) ==
    \E i \in RuleIdx :
        NormalizePath(Source(v)) \in Range(RequiredContent(f[w][i + 1], NormalizePath(Source(w))))

Acyclic(f) ==
    \E rank \in [Items -> Items] :
        \A w, v \in Items : RequiresItem(f, w, v) => rank[v] < rank[w]

AcyclicRequires ==
    {[fixed |-> TRUE, of |-> f] : f \in {g \in [Items -> [1..NRules -> ItemLists]] : Acyclic(g)}}

InitLive ==
    /\ WorkerInit
    /\ requires \in AcyclicRequires
    /\ failures = 0
    /\ BundlerUnused
    /\ SourcemapUnused
    /\ ExcludeUnused
    /\ RuntimeUnused
    /\ ComputeUnused
    /\ InternUnused
    /\ SourcesUnused
    /\ ScopeUnused
    /\ ManifestUnused
    /\ ProcessorUnused
    /\ CollectorUnused
    /\ ParseUnused
    /\ LinesUnused

NextLive ==
    \/ \E w \in Items : AdvanceNotStarted(w)
    \/ \E w \in Items : AdvanceInProgress(w)
    \/ \E w \in Items : AdvanceDone(w)
    \/ QueryRule
    \/ SuspendWork
    \/ ApplyRule
    \/ Generate

SpecLive ==
    /\ InitLive
    /\ [][NextLive]_vars
    /\ \A w \in Items : SF_vars(AdvanceNotStarted(w)) /\ SF_vars(AdvanceInProgress(w))
    /\ WF_vars(QueryRule)
    /\ WF_vars(SuspendWork)
    /\ WF_vars(ApplyRule)
    /\ WF_vars(Generate)

(***************************************************************************)
(* The worker under any caller, every rule's required content fixed at the *)
(* start: it names sources of work items, and two items may require each   *)
(* other.  Steps may fail.                                                 *)
(***************************************************************************)
FixedRequires ==
    {[fixed |-> TRUE, of |-> f] : f \in [Items -> [1..NRules -> ItemLists]]}

InitFixed ==
    /\ WorkerInit
    /\ requires \in FixedRequires
    /\ failures = 0
    /\ BundlerUnused
    /\ SourcemapUnused
    /\ ExcludeUnused
    /\ RuntimeUnused
    /\ ComputeUnused
    /\ InternUnused
    /\ SourcesUnused
    /\ ScopeUnused
    /\ ManifestUnused
    /\ ProcessorUnused
    /\ CollectorUnused
    /\ ParseUnused
    /\ LinesUnused

SpecFixed == InitFixed /\ [][Next]_vars

(***************************************************************************)
(* The instance-mode bundler (rules/bundle/roblox_require_mode/mod.rs).    *)
(*                                                                         *)
(* The files are 1..NBundled, file Entry the one given to process_block.   *)
(* calls[f] lists, in the order the visitor meets them, the files that the *)
(* arguments of the require calls of f resolve to, shapes[f] what these    *)
(* calls look like.  broken[f] is "missing" when resources.get fails for   *)
(* f, "invalid" when the block of f ends with a return of several values,  *)
(* "empty" when it ends with a return of no value, "noreturn" when no      *)
(* return statement ends it, "ok" when it ends with a return of one value. *)
(* SpecBundle runs the bundles whose calls are all require(<path>) with a  *)
(* path the manifest resolves, no file excluded; SpecInline runs bundles   *)
(* with a call of another shape, an excluded file or a file of another     *)
(* ending.                                                                 *)
(***************************************************************************)
NBundled == 3      \* files of a bundle
MaxCalls == 2      \* resolved require calls in one file
MaxBroken == 1     \* files that do not load

BundleFiles == 1..NBundled
Entry == 1
CallLists == UNION {[1..n -> BundleFiles] : n \in 0..MaxCalls}
Sites == BundleFiles \X BOOLEAN \X (1..MaxCalls)

Unvisited == [kind |-> "unvisited", name |-> 0]
Unchanged == [kind |-> "unchanged", name |-> 0]
LoadCall(name) == [kind |-> "load", name |-> name]

Running == [kind |-> "running", message |-> <<>>]

CyclicRequireWholeStack(stack, require_path) ==
    [kind |-> "cyclic", paths |-> Append(stack, require_path)]

\* mod.rs 545-556: the stack from the first occurrence of the path, then the path
CyclicRequire(stack, require_path) ==
    [kind |-> "cyclic",
     paths |-> Append(SubSeq(stack, IndexOf(stack, require_path), Len(stack)), require_path)]

ResourceNotFound(path) == [kind |-> "resource", paths |-> <<path>>]
InvalidModule(path) == [kind |-> "module", paths |-> <<path>>]

\* mod.rs 80-87: no error, the one error, or the list of them
ApplyResult(errs) ==
    IF errs = <<>> THEN [kind |-> "Ok", message |-> <<>>]
    ELSE IF Len(errs) = 1 THEN [kind |-> "Err", message |-> errs[1]]
    ELSE [kind |-> "Err", message |-> [kind |-> "list", paths |-> errs]]

(***************************************************************************)
(* The module names.  The permutator counts the identifiers it has given:  *)
(* the n-th one is Identifier(n), a, b, .., z, aa, ab, .., written as the  *)
(* sequence of its letters, a = 1 .. z = 26.  A module name is kept as the *)
(* number of its identifier.                                               *)
(***************************************************************************)
Letters == 26
RECURSIVE Identifier(_)
Identifier(n) ==
    IF n = 0 THEN <<>>
    ELSE Append(Identifier((n - 1) \div Letters), ((n - 1) % Letters) + 1)

\* module_definitions.rs 38-39: "load" and "cache"
BUNDLE_MODULES_VARIABLE_LOAD_FIELD == <<12, 15, 1, 4>>
BUNDLE_MODULES_VARIABLE_CACHE_FIELD == <<3, 1, 3, 8, 5>>

GenerateModuleNameUnchecked(permutator) == permutator + 1

\* module_definitions.rs 151-161: the next identifier of the permutator that
\* is neither "cache" nor "load"
RECURSIVE GenerateModuleName(_)
GenerateModuleName(permutator) ==
    IF /\ Identifier(permutator + 1) # BUNDLE_MODULES_VARIABLE_CACHE_FIELD
       /\ Identifier(permutator + 1) # BUNDLE_MODULES_VARIABLE_LOAD_FIELD
    THEN permutator + 1
    ELSE GenerateModuleName(permutator + 1)

(***************************************************************************)
(* What a call looks like.  "require" is require(<path>) with a path the   *)
(* manifest resolves to the file calls gives; "shadowed" is the same call  *)
(* where a local named require is in scope; "method" is                    *)
(* require:method(<path>); "unparsed" has one argument that is no instance *)
(* path, "unresolved" a path the manifest does not resolve; "string",      *)
(* "table", "none" and "two" are require "..", require {..}, require() and *)
(* require(a, b).  calls gives 0 where the argument leads to no file.      *)
(***************************************************************************)
PathShapes == {"require", "shadowed", "method"}
NoFileShapes == {"unparsed", "unresolved", "string", "table", "none", "two"}
CallShapes == PathShapes \cup NoFileShapes

\* the identifier tracker of the processor: ScopeVisitor (process_block,
\* mod.rs 763) keeps it while it visits the entry block, DefaultVisitor
\* (require_resource, mod.rs 622) visits the block of a module without
\* touching it, so it holds the bindings at the call of the entry block the
\* visitor stands at
IsIdentifierUsed == shapes[Entry][frames[1].next] = "shadowed"

IsRequireCallWithMethod(shape, identifier_used) == ~identifier_used

\* is_require_call (mod.rs 396): no method, the callee the identifier require,
\* and no binding of that name known to the tracker
IsRequireCall(shape, identifier_used) == shape # "method" /\ ~identifier_used

\* mod.rs 403-426: the one argument of a tuple, parsed to an instance path
HasInstancePath(shape) == shape \in {"require", "shadowed", "method", "unresolved"}

\* require_call (mod.rs 395-482): the file of the call, 0 when it returns None
RequireCallOf(shape, identifier_used, file) ==
    IF ~IsRequireCall(shape, identifier_used) THEN 0
    ELSE IF ~HasInstancePath(shape) THEN 0
    ELSE IF shape = "unresolved" THEN 0
    ELSE file

\* the return statement that ends the block of the file: has it one, and how
\* many values it returns
HasReturn(path) == broken[path] # "noreturn"
ReturnLength(path) ==
    IF broken[path] = "empty" THEN 0 ELSE IF broken[path] = "invalid" THEN 2 ELSE 1

ModuleRefusedWhenSeveral(path) == HasReturn(path) /\ ReturnLength(path) > 1

\* module_definitions.rs 64-70
ModuleRefused(path) == HasReturn(path) /\ ReturnLength(path) # 1

\* module_definitions.rs 62-79: the block that is registered, return nil put
\* where no return statement ends it
ModuleBlock(path) ==
    [returns |-> IF HasReturn(path) THEN ReturnLength(path) ELSE 1,
     nil_injected |-> ~HasReturn(path)]

RequireAbsolute(path) == [kind |-> "require", name |-> path]

NoHeader == [modules_variable |-> FALSE, modules_table |-> FALSE, functions |-> <<>>,
             shifted |-> FALSE]

ApplyAlways(definitions) ==
    [modules_variable |-> TRUE, modules_table |-> TRUE,
     functions |-> [k \in 1..Len(definitions) |-> definitions[k].name],
     shifted |-> TRUE]

\* module_definitions.rs 163-242: nothing without a definition; else the
\* lines are shifted and the do block of the functions, the table and the
\* local variable are put before the block
Apply(definitions) ==
    IF definitions = <<>> THEN NoHeader
    ELSE [modules_variable |-> TRUE, modules_table |-> TRUE,
          functions |-> [k \in 1..Len(definitions) |-> definitions[k].name],
          shifted |-> TRUE]

NeverCached(path) == FALSE

\* mod.rs 538
IsCached(path) == module_cache[path] # 0

\* mod.rs 540-544
OnRequireStack(path) == path \in Range(require_stack)

\* block.clone() of the parsed block of a file (mod.rs 611-616, 754-756)
BlockClone(path) == <<"block", path>>

\* what a bundler step that enters or leaves require_resource leaves alone
besidesProcessor == <<workerVars, rojoVars, excludeVars, runtimeVars, computeVars, internVars,
                  sourcesVars, manifestVars, collectorVars, parseVars, linesVars,
                  file_block, visit_stack, resolved_paths>>

\* RequireRobloxProcessor::new (mod.rs 64-77) and the block process_block
\* starts to visit (761-763)
ProcessorNew ==
    /\ frames = <<[source |-> Entry, next |-> 1, module |-> FALSE,
                   current_source |-> 0, previous_block_clone |-> 0,
                   previous_root_block_clone |-> 0]>>
    /\ self_source = Entry
    /\ current_block_clone = BlockClone(Entry)
    /\ root_block_clone = BlockClone(Entry)
    /\ file_block = 0
    /\ visit_stack = 0
    /\ resolved_paths = 0
    /\ require_stack = <<>>
    /\ module_cache = [f \in BundleFiles |-> 0]
    /\ skip_module_paths = {}
    /\ errors = <<>>
    /\ module_definitions = <<>>
    /\ module_name_permutator = 0
    /\ replaced = [site \in Sites |-> Unvisited]
    /\ loads = [f \in BundleFiles |-> 0]
    /\ entry_header = NoHeader
    /\ bundle_result = Running

BundleInit ==
    /\ calls \in [BundleFiles -> CallLists]
    /\ shapes = [f \in BundleFiles |-> [k \in 1..Len(calls[f]) |-> "require"]]
    /\ excluded = {}
    /\ broken \in {b \in [BundleFiles -> {"ok", "missing", "invalid"}] :
                      /\ b[Entry] # "missing"
                      /\ Cardinality({f \in BundleFiles : b[f] # "ok"}) <= MaxBroken}
    /\ ProcessorNew
    /\ WorkerUnused
    /\ SourcemapUnused
    /\ ExcludeUnused
    /\ RuntimeUnused
    /\ ComputeUnused
    /\ InternUnused
    /\ SourcesUnused
    /\ ManifestUnused
    /\ CollectorUnused
    /\ ParseUnused
    /\ LinesUnused

\* the block being visited, the require call the visitor stands at
Top == frames[Len(frames)]
Visiting == bundle_result = Running /\ Top.next <= Len(calls[Top.source])
Visited == bundle_result = Running /\ Top.next > Len(calls[Top.source])
RequirePath == calls[Top.source][Top.next]
RequireCall == RequireCallOf(shapes[Top.source][Top.next], IsIdentifierUsed, RequirePath)
\* try_inline_call (mod.rs 485-487) goes on to the skip set and inline_require
Inlining == Visiting /\ RequireCall # 0 /\ RequirePath \notin excluded
Site(frame) == <<frame.source, frame.module, frame.next>>
NextCall(frame) == [frame EXCEPT !.next = @ + 1]

\* as SkipErrored, but the path that failed before is tried again and fails
\* the same way
SkipErroredRetried ==
    /\ Inlining
    /\ RequirePath \in skip_module_paths
    /\ errors' = Append(errors, CHOOSE e \in Range(errors) : e.paths[1] = RequirePath)
    /\ replaced' = [replaced EXCEPT ![Site(Top)] = Unchanged]
    /\ frames' = [frames EXCEPT ![Len(frames)] = NextCall(@)]
    /\ UNCHANGED <<bundleInputs, entry_header, require_stack, module_cache, skip_module_paths,
                   module_definitions, module_name_permutator, loads, bundle_result>>
    /\ UNCHANGED notBundler

\* try_inline_call (mod.rs 514-520): a path that failed before is not tried again
SkipErrored ==
    /\ Inlining
    /\ RequirePath \in skip_module_paths
    /\ replaced' = [replaced EXCEPT ![Site(Top)] = Unchanged]
    /\ frames' = [frames EXCEPT ![Len(frames)] = NextCall(@)]
    /\ UNCHANGED <<bundleInputs, entry_header, require_stack, module_cache, skip_module_paths, errors,
                   module_definitions, module_name_permutator, loads, bundle_result>>
    /\ UNCHANGED notBundler

\* inline_require (mod.rs 538-539): the expression cached for the path
InlineCached ==
    /\ Inlining
    /\ RequirePath \notin skip_module_paths
    /\ IsCached(RequirePath)
    /\ replaced' = [replaced EXCEPT ![Site(Top)] = LoadCall(module_cache[RequirePath])]
    /\ frames' = [frames EXCEPT ![Len(frames)] = NextCall(@)]
    /\ UNCHANGED <<bundleInputs, entry_header, require_stack, module_cache, skip_module_paths, errors,
                   module_definitions, module_name_permutator, loads, bundle_result>>
    /\ UNCHANGED notBundler

\* inline_require (mod.rs 540-556) and try_inline_call (524-528): the path is
\* being loaded, the error is recorded and the call is kept
CyclicRequireDetected ==
    /\ Inlining
    /\ RequirePath \notin skip_module_paths
    /\ ~IsCached(RequirePath)
    /\ OnRequireStack(RequirePath)
    /\ errors' = Append(errors, CyclicRequire(require_stack, RequirePath))
    /\ skip_module_paths' = skip_module_paths \cup {RequirePath}
    /\ replaced' = [replaced EXCEPT ![Site(Top)] = Unchanged]
    /\ frames' = [frames EXCEPT ![Len(frames)] = NextCall(@)]
    /\ UNCHANGED <<bundleInputs, entry_header, require_stack, module_cache, module_definitions,
                   module_name_permutator, loads, bundle_result>>
    /\ UNCHANGED notBundler

\* inline_require (mod.rs 558-560) when resources.get fails (579): the path is
\* pushed and popped, the error recorded, the call kept
RequireMissingResource ==
    /\ Inlining
    /\ RequirePath \notin skip_module_paths
    /\ ~IsCached(RequirePath)
    /\ ~OnRequireStack(RequirePath)
    /\ broken[RequirePath] = "missing"
    /\ errors' = Append(errors, ResourceNotFound(RequirePath))
    /\ skip_module_paths' = skip_module_paths \cup {RequirePath}
    /\ replaced' = [replaced EXCEPT ![Site(Top)] = Unchanged]
    /\ frames' = [frames EXCEPT ![Len(frames)] = NextCall(@)]
    /\ UNCHANGED <<bundleInputs, entry_header, require_stack, module_cache, module_definitions,
                   module_name_permutator, loads, bundle_result>>
    /\ UNCHANGED notBundler

\* inline_require (mod.rs 558-559) and require_resource (577-611): push the
\* path, read and parse the resource, visit its block
RequireResource ==
    /\ Inlining
    /\ RequirePath \notin skip_module_paths
    /\ ~IsCached(RequirePath)
    /\ ~OnRequireStack(RequirePath)
    /\ broken[RequirePath] # "missing"
    /\ require_stack' = Append(require_stack, RequirePath)
    /\ loads' = [loads EXCEPT ![RequirePath] = @ + 1]
    /\ frames' = Append(frames, [source |-> RequirePath, next |-> 1, module |-> TRUE,
                                 current_source |-> self_source,
                                 previous_block_clone |-> current_block_clone,
                                 previous_root_block_clone |-> root_block_clone])
    /\ self_source' = RequirePath
    /\ current_block_clone' = BlockClone(RequirePath)
    /\ root_block_clone' = BlockClone(RequirePath)
    /\ UNCHANGED <<bundleInputs, entry_header, module_cache, skip_module_paths, errors,
                   module_definitions, module_name_permutator, replaced, bundle_result>>
    /\ UNCHANGED besidesProcessor

\* the frame of the call that required the block just visited
Caller == frames[Len(frames) - 1]
\* as ReturnToCaller, but the fields of the processor stay those of the
\* module that was visited
ReturnToCallerUnrestored(call) ==
    /\ frames' = [Front(frames) EXCEPT ![Len(frames) - 1] = NextCall(@)]
    /\ replaced' = [replaced EXCEPT ![Site(Caller)] = call]
    /\ UNCHANGED <<self_source, current_block_clone, root_block_clone>>

\* require_resource puts back what it replaced (mod.rs 630-632) and returns
\* to the call it was made for
ReturnToCaller(call) ==
    /\ frames' = [Front(frames) EXCEPT ![Len(frames) - 1] = NextCall(@)]
    /\ replaced' = [replaced EXCEPT ![Site(Caller)] = call]
    /\ self_source' = Top.current_source
    /\ current_block_clone' = Top.previous_block_clone
    /\ root_block_clone' = Top.previous_root_block_clone

\* require_resource returns (mod.rs 619-623), inline_require pops the path
\* (560), builds the module (562-564, module_definitions.rs 55-149) and
\* caches its load call (566-569)
BuildModule ==
    /\ Visited
    /\ Len(frames) > 1
    /\ ~ModuleRefused(Top.source)
    /\ require_stack' = Front(require_stack)
    /\ module_name_permutator' = GenerateModuleName(module_name_permutator)
    /\ module_definitions' = Append(module_definitions,
                                    [name |-> GenerateModuleName(module_name_permutator),
                                     path |-> Top.source,
                                     block |-> ModuleBlock(Top.source)])
    /\ module_cache' = [module_cache EXCEPT
                            ![Top.source] = GenerateModuleName(module_name_permutator)]
    /\ ReturnToCaller(LoadCall(GenerateModuleName(module_name_permutator)))
    /\ UNCHANGED <<bundleInputs, entry_header, skip_module_paths, errors, loads, bundle_result>>
    /\ UNCHANGED besidesProcessor

\* build_module_from_resource refuses a block whose return statement has not
\* one value (module_definitions.rs 64-71): the error is recorded, the call kept
RefuseModule ==
    /\ Visited
    /\ Len(frames) > 1
    /\ ModuleRefused(Top.source)
    /\ require_stack' = Front(require_stack)
    /\ errors' = Append(errors, InvalidModule(Top.source))
    /\ skip_module_paths' = skip_module_paths \cup {Top.source}
    /\ ReturnToCaller(Unchanged)
    /\ UNCHANGED <<bundleInputs, entry_header, module_cache, module_definitions,
                   module_name_permutator, loads, bundle_result>>
    /\ UNCHANGED besidesProcessor

\* process_block (mod.rs 761-764): the entry block is visited, apply (80-87)
ApplyBundle ==
    /\ Visited
    /\ Len(frames) = 1
    /\ entry_header' = Apply(module_definitions)
    /\ bundle_result' = ApplyResult(errors)
    /\ UNCHANGED <<bundleInputs, frames, require_stack, module_cache, skip_module_paths,
                   errors, module_definitions, module_name_permutator, replaced, loads>>
    /\ UNCHANGED notBundler

BundleNext ==
    \/ SkipErrored
    \/ InlineCached
    \/ CyclicRequireDetected
    \/ RequireMissingResource
    \/ RequireResource
    \/ BuildModule
    \/ RefuseModule
    \/ ApplyBundle

SpecBundle == BundleInit /\ [][BundleNext]_vars

(***************************************************************************)
(* Bundles with calls that are not inlined.  At most MaxIrregular things   *)
(* of a bundle are out of the ordinary: a call of another shape than       *)
(* require(<path>) (at most MaxSpecial), an excluded file (at most         *)
(* MaxExcluded), a file that does not load or does not end with a return   *)
(* of one value (at most MaxBroken).                                       *)
(***************************************************************************)
MaxSpecial == 1
MaxExcluded == 1
MaxIrregular == 1

NoPick == <<0, 0, "require">>
Picks == {NoPick} \cup (BundleFiles \X (1..MaxCalls) \X (CallShapes \ {"require"}))
PickLists == [1..MaxSpecial -> Picks]
Picked(picks) == {i \in DOMAIN picks : picks[i] # NoPick}
ShapeAt(picks, f, k) ==
    LET hits == {i \in DOMAIN picks : picks[i][1] = f /\ picks[i][2] = k}
    IN  IF hits = {} THEN "require" ELSE picks[CHOOSE i \in hits : \A j \in hits : j <= i][3]

ExcludedSets == {e \in SUBSET BundleFiles : Cardinality(e) <= MaxExcluded}
Endings == {"ok", "missing", "invalid", "empty", "noreturn"}
BrokenMaps ==
    {b \in [BundleFiles -> Endings] :
        /\ b[Entry] # "missing"
        /\ Cardinality({f \in BundleFiles : b[f] # "ok"}) <= MaxBroken}

InlineInit ==
    /\ \E e \in ExcludedSets, b \in BrokenMaps, picks \in PickLists :
          /\ Cardinality(e) + Cardinality({f \in BundleFiles : b[f] # "ok"})
                + Cardinality(Picked(picks)) <= MaxIrregular
          /\ \E base \in [BundleFiles -> CallLists] :
                /\ \A i \in Picked(picks) : picks[i][2] <= Len(base[picks[i][1]])
                /\ shapes = [f \in BundleFiles |->
                                [k \in 1..Len(base[f]) |-> ShapeAt(picks, f, k)]]
                /\ calls = [f \in BundleFiles |->
                               [k \in 1..Len(base[f]) |->
                                   IF ShapeAt(picks, f, k) \in NoFileShapes
                                   THEN 0 ELSE base[f][k]]]
          /\ excluded = e
          /\ broken = b
    /\ ProcessorNew
    /\ WorkerUnused
    /\ SourcemapUnused
    /\ ExcludeUnused
    /\ RuntimeUnused
    /\ ComputeUnused
    /\ InternUnused
    /\ SourcesUnused
    /\ ManifestUnused
    /\ CollectorUnused
    /\ ParseUnused
    /\ LinesUnused

LeaveCallWithError ==
    /\ Visiting
    /\ RequireCall = 0
    /\ errors' = Append(errors, ResourceNotFound(RequirePath))
    /\ replaced' = [replaced EXCEPT ![Site(Top)] = Unchanged]
    /\ frames' = [frames EXCEPT ![Len(frames)] = NextCall(@)]
    /\ UNCHANGED <<bundleInputs, entry_header, require_stack, module_cache,
                   skip_module_paths, module_definitions, module_name_permutator,
                   loads, bundle_result>>
    /\ UNCHANGED notBundler

\* try_inline_call (mod.rs 485): require_call returned None, the call is kept
LeaveCall ==
    /\ Visiting
    /\ RequireCall = 0
    /\ replaced' = [replaced EXCEPT ![Site(Top)] = Unchanged]
    /\ frames' = [frames EXCEPT ![Len(frames)] = NextCall(@)]
    /\ UNCHANGED <<bundleInputs, entry_header, require_stack, module_cache,
                   skip_module_paths, errors, module_definitions, module_name_permutator,
                   loads, bundle_result>>
    /\ UNCHANGED notBundler

\* try_inline_call (mod.rs 487-512): the file is excluded, the call gets the
\* absolute path of the file for its argument and nothing is loaded
RewriteExcluded ==
    /\ Visiting
    /\ RequireCall # 0
    /\ RequirePath \in excluded
    /\ replaced' = [replaced EXCEPT ![Site(Top)] = RequireAbsolute(RequirePath)]
    /\ frames' = [frames EXCEPT ![Len(frames)] = NextCall(@)]
    /\ UNCHANGED <<bundleInputs, entry_header, require_stack, module_cache,
                   skip_module_paths, errors, module_definitions, module_name_permutator,
                   loads, bundle_result>>
    /\ UNCHANGED notBundler

InlineNext ==
    \/ BundleNext
    \/ LeaveCall
    \/ RewriteExcluded

SpecInline == InlineInit /\ [][InlineNext]_vars

(***************************************************************************)
(* The names of a long run (module_definitions.rs 85-90, 151-161): the     *)
(* permutator has given NamesGiven identifiers, none or as many as bring   *)
(* it close to a reserved name, and up to MaxNames modules are registered. *)
(***************************************************************************)
MaxNames == 12     \* modules registered from where the permutator stands

RECURSIVE NumberOf(_)
NumberOf(letters) ==
    IF letters = <<>> THEN 0 ELSE NumberOf(Front(letters)) * Letters + Last(letters)

NamesGiven ==
    {0} \cup {NumberOf(r) - d : r \in {BUNDLE_MODULES_VARIABLE_CACHE_FIELD,
                                       BUNDLE_MODULES_VARIABLE_LOAD_FIELD},
                                d \in 1..MaxNames}

NamesInit ==
    /\ module_name_permutator \in NamesGiven
    /\ module_definitions = <<>>
    /\ calls = 0 /\ shapes = 0 /\ excluded = 0 /\ broken = 0 /\ frames = 0
    /\ require_stack = 0 /\ module_cache = 0 /\ skip_module_paths = 0 /\ errors = 0
    /\ replaced = 0 /\ loads = 0 /\ entry_header = 0 /\ bundle_result = 0
    /\ WorkerUnused
    /\ SourcemapUnused
    /\ ExcludeUnused
    /\ RuntimeUnused
    /\ ComputeUnused
    /\ InternUnused
    /\ SourcesUnused
    /\ ScopeUnused
    /\ ManifestUnused
    /\ ProcessorUnused
    /\ CollectorUnused
    /\ ParseUnused
    /\ LinesUnused

\* build_module_from_resource (module_definitions.rs 85-90) for one more
\* module, its block ending with a return of one value
RegisterModule ==
    /\ Len(module_definitions) < MaxNames
    /\ module_name_permutator' = GenerateModuleName(module_name_permutator)
    /\ module_definitions' = Append(module_definitions,
                                    [name |-> GenerateModuleName(module_name_permutator),
                                     path |-> Len(module_definitions) + 1,
                                     block |-> [returns |-> 1, nil_injected |-> FALSE]])
    /\ UNCHANGED <<bundleInputs, frames, require_stack, module_cache, skip_module_paths,
                   errors, replaced, loads, entry_header, bundle_result>>
    /\ UNCHANGED notBundler

NamesNext == RegisterModule

SpecNames == NamesInit /\ [][NamesNext]_vars

(***************************************************************************)
(* The Rojo sourcemap (rules/convert_require/rojo_sourcemap.rs) and the    *)
(* instance paths (rules/convert_require/instance_path.rs).                *)
(*                                                                         *)
(* A manifest document is a tree of nodes numbered 1..n in the order of    *)
(* the document, node 1 the root: names[p], files[p] (the filePaths) and   *)
(* kids[p] (the children, in the order of the document).                   *)
(***************************************************************************)
MaxNodes == 4      \* nodes of a manifest
NNames == 2        \* different instance names
NListed == 2       \* different files listed by a manifest
MaxFilePaths == 2  \* longest filePaths list of a node

NodeNames == 1..NNames
FileIds == 1..NListed


\* instance_path.rs 11-39
FromRoot == [root |-> "Root", components |-> <<>>]
FromScript == [root |-> "Script", components |-> <<>>]
ParentComponent == <<"Parent">>
ChildComponent(name) == <<"Child", name>>
AncestorComponent(name) == <<"Ancestor", name>>
WithParent(path) == [path EXCEPT !.components = Append(@, ParentComponent)]
WithChild(path, name) == [path EXCEPT !.components = Append(@, ChildComponent(name))]
WithAncestor(path, name) == [path EXCEPT !.components = Append(@, AncestorComponent(name))]


\* as InitializeLoop, but the children are not given the id of their parent
RECURSIVE InitializeLoopParentUnset(_, _, _, _, _)
InitializeLoopParentUnset(doc, queue, index, ids, parent_ids) ==
    IF queue = <<>> THEN [ids |-> ids, parent_ids |-> parent_ids]
    ELSE LET node == Last(queue)
             kids == doc.kids[node]
         IN  InitializeLoopParentUnset(doc, Front(queue) \o kids, index + 1,
                                       [ids EXCEPT ![node] = index], parent_ids)

(***************************************************************************)
(* RojoSourcemapNode::initialize (rojosourcemap.rs 27-44): the ids are     *)
(* given in the order a stack of nodes is popped, each child's parent_id   *)
(* is the id of the node that pushed it, the root keeps parent_id 0.       *)
(***************************************************************************)
RECURSIVE InitializeLoop(_, _, _, _, _)
InitializeLoop(doc, queue, index, ids, parent_ids) ==
    IF queue = <<>> THEN [ids |-> ids, parent_ids |-> parent_ids]
    ELSE LET node == Last(queue)
             kids == doc.kids[node]
         IN  InitializeLoop(doc, Front(queue) \o kids, index + 1,
                            [ids EXCEPT ![node] = index],
                            [p \in DOMAIN parent_ids |->
                                IF p \in Range(kids) THEN index ELSE parent_ids[p]])

Initialize(doc) ==
    LET n == Len(doc.names)
        done == InitializeLoop(doc, <<1>>, 0, [p \in 1..n |-> 0], [p \in 1..n |-> 0])
        at(id) == CHOOSE p \in 1..n : done.ids[p] = id
    IN  [id \in 0..(n - 1) |->
            [id |-> id,
             parent_id |-> done.parent_ids[at(id)],
             name |-> doc.names[at(id)],
             file_paths |-> doc.files[at(id)],
             children |-> [k \in 1..Len(doc.kids[at(id)]) |-> done.ids[doc.kids[at(id)][k]]]]]

NodeIds(sm) == DOMAIN sm.nodes

\* rojo_sourcemap.rs 66-68
IsRoot(node) == node.id = node.parent_id

\* rojo_sourcemap.rs 62-64
GetDescendant(sm, id) == IF id \in NodeIds(sm) THEN Some(sm.nodes[id]) ELSE None

\* rojo_sourcemap.rs 58-60
GetChild(sm, node, id) ==
    IF id \in Range(node.children) THEN Some(sm.nodes[id]) ELSE None

\* the first child of that name, in the order of the children
FindChildNamed(sm, node, name) ==
    LET hits == SelectSeq(node.children, LAMBDA c : sm.nodes[c].name = name)
    IN  IF hits = <<>> THEN None ELSE Some(sm.nodes[hits[1]])

ListsFile(node, file) == \E k \in 1..Len(node.file_paths) : node.file_paths[k] = file

FindNodeLast(sm, file) ==
    LET hits == {id \in NodeIds(sm) : ListsFile(sm.nodes[id], file)}
    IN  IF hits = {} THEN None
        ELSE Some(sm.nodes[CHOOSE id \in hits : \A other \in hits : other <= id])

\* rojo_sourcemap.rs 308-312: the iterator (71-96) pops the nodes in the order
\* initialize numbered them, so the first node found is the one of least id
FindNode(sm, file) ==
    LET hits == {id \in NodeIds(sm) : ListsFile(sm.nodes[id], file)}
    IN  IF hits = {} THEN None
        ELSE Some(sm.nodes[CHOOSE id \in hits : \A other \in hits : id <= other])

\* rojo_sourcemap.rs 288-306: the ids of the node and of each of its ancestors
RECURSIVE HierarchyFrom(_, _, _)
HierarchyFrom(sm, parent_id, ids) ==
    LET parent == GetDescendant(sm, parent_id)
    IN  IF ~parent.some THEN ids
        ELSE IF IsRoot(parent.value) THEN Append(ids, parent_id)
        ELSE HierarchyFrom(sm, parent.value.parent_id, Append(ids, parent_id))

Hierarchy(sm, node) ==
    IF IsRoot(node) THEN <<node.id>> ELSE HierarchyFrom(sm, node.parent_id, <<node.id>>)

\* rojo_sourcemap.rs 274-285
RECURSIVE IndexDescendants(_, _, _, _)
IndexDescendants(sm, path, node, descendants) ==
    IF descendants = <<>> THEN Some(path)
    ELSE LET child == GetChild(sm, node, Head(descendants))
         IN  IF ~child.some THEN None
             ELSE IndexDescendants(sm, WithChild(path, child.value.name), child.value,
                                   Tail(descendants))

RECURSIVE Parents(_, _)
Parents(path, n) == IF n = 0 THEN path ELSE Parents(WithParent(path), n - 1)

UseScriptPathAlways(sm, relative_path_length, target_ancestors) == TRUE

UseScriptPathWhenShorter(sm, relative_path_length, target_ancestors) ==
    relative_path_length < Len(target_ancestors) - 1

\* rojo_sourcemap.rs 159
UseScriptPath(sm, relative_path_length, target_ancestors) ==
    ~sm.is_datamodel \/ relative_path_length <= Len(target_ancestors)

\* rojo_sourcemap.rs 119-182
GetInstancePath(sm, from, target) ==
    LET from_node == FindNode(sm, from)
        target_node == FindNode(sm, target)
    IN  IF ~from_node.some \/ ~target_node.some THEN None
        ELSE
        LET from_ancestors == Hierarchy(sm, from_node.value)
            target_ancestors == Hierarchy(sm, target_node.value)
            common == {k \in 1..Len(from_ancestors) : from_ancestors[k] \in Range(target_ancestors)}
        IN  IF common = {} THEN None
            ELSE
            LET index == CHOOSE k \in common : \A l \in common : k <= l
                common_ancestor_id == from_ancestors[index]
                target_index == IndexOf(target_ancestors, common_ancestor_id)
                parents == SubSeq(from_ancestors, 1, index - 1)
                descendants == SubSeq(target_ancestors, 1, target_index - 1)
                relative_path_length == Len(parents) + Len(descendants)
            IN  IF UseScriptPath(sm, relative_path_length, target_ancestors)
                THEN LET ancestor == GetDescendant(sm, common_ancestor_id)
                     IN  IF ~ancestor.some THEN None
                         ELSE IndexDescendants(sm, Parents(FromScript, Len(parents)),
                                               ancestor.value, Reverse(descendants))
                ELSE IndexDescendants(sm, FromRoot, sm.nodes[0],
                                      Tail(Reverse(target_ancestors)))

\* rojo_sourcemap.rs 210-223, 239-252: the nearest ancestor of that name,
\* looked for from the parent of the node upwards
RECURSIVE AncestorNamedFrom(_, _, _)
AncestorNamedFrom(sm, cursor, name) ==
    IF ~cursor.some THEN None
    ELSE IF cursor.value.name = name THEN cursor
    ELSE IF IsRoot(cursor.value) THEN None
    ELSE AncestorNamedFrom(sm, GetDescendant(sm, cursor.value.parent_id), name)

AncestorNamed(sm, node, name) == AncestorNamedFrom(sm, GetDescendant(sm, node.parent_id), name)

\* rojo_sourcemap.rs 204-225 and 231-254: walk the components from a node
RECURSIVE Walk(_, _, _, _)
Walk(sm, node, components, from_script) ==
    IF components = <<>> THEN Some(node)
    ELSE LET c == Head(components)
             next == IF c[1] = "Parent"
                        THEN (IF from_script THEN GetDescendant(sm, node.parent_id) ELSE None)
                     ELSE IF c[1] = "Child" THEN FindChildNamed(sm, node, c[2])
                     ELSE AncestorNamed(sm, node, c[2])
         IN  IF ~next.some THEN None ELSE Walk(sm, next.value, Tail(components), from_script)

FirstFile(node) == IF node.file_paths = <<>> THEN None ELSE Some(node.file_paths[1])

LastFile(node) == IF node.file_paths = <<>> THEN None ELSE Some(Last(node.file_paths))

\* rojo_sourcemap.rs 259-260
PreferredFile(node) == FirstFile(node)

\* rojo_sourcemap.rs 190-256: the node the path leads to from the file
TargetNodeOf(sm, from, path) ==
    LET from_node == FindNode(sm, from)
    IN  IF ~from_node.some THEN None
        ELSE IF path.root = "Root"
        THEN IF path.components = <<>> \/ Head(path.components)[1] # "Child" THEN None
             ELSE LET service == FindChildNamed(sm, sm.nodes[0], Head(path.components)[2])
                  IN  IF ~service.some THEN None
                      ELSE Walk(sm, service.value, Tail(path.components), FALSE)
        ELSE Walk(sm, from_node.value, path.components, TRUE)

\* rojo_sourcemap.rs 184-261
GetFileFromInstancePath(sm, from, path) ==
    LET target_node == TargetNodeOf(sm, from, path)
    IN  IF ~target_node.some THEN None ELSE PreferredFile(target_node.value)

(***************************************************************************)
(* The manifests of the model: every tree of at most MaxNodes nodes, every *)
(* naming of its nodes, every listing of at most MaxFilePaths different    *)
(* files by each node, the root a DataModel or not.                        *)
(***************************************************************************)
FileLists ==
    {l \in UNION {[1..n -> FileIds] : n \in 0..MaxFilePaths} :
        \A k, m \in 1..Len(l) : k # m => l[k] # l[m]}

KidsOf(n, parent) ==
    [p \in 1..n |-> SelectSeq([q \in 1..n |-> q], LAMBDA q : q > 1 /\ parent[q] = p)]

\* the parent of every node but the root comes before it in the document
ParentMaps(n) ==
    {f \in [1..n -> 0..(n - 1)] : f[1] = 0 /\ \A q \in 2..n : f[q] >= 1 /\ f[q] < q}

Document(n, names, files, parent) ==
    [names |-> names, files |-> files, kids |-> KidsOf(n, parent)]

Registered(sm) == {f \in FileIds : FindNode(sm, f).some}

RojoInit ==
    /\ \E n \in 1..MaxNodes, d \in BOOLEAN :
       \E names \in [1..n -> NodeNames], files \in [1..n -> FileLists],
          parent \in ParentMaps(n) :
          sourcemap = [is_datamodel |-> d,
                       nodes |-> Initialize(Document(n, names, files, parent))]
    /\ from_file = 0
    /\ target_file = 0
    /\ instance_path = None
    /\ resolved_file = None
    /\ rojo_pc = "parsed"
    /\ WorkerUnused
    /\ BundlerUnused
    /\ ExcludeUnused
    /\ RuntimeUnused
    /\ ComputeUnused
    /\ InternUnused
    /\ SourcesUnused
    /\ ScopeUnused
    /\ ManifestUnused
    /\ ProcessorUnused
    /\ CollectorUnused
    /\ ParseUnused
    /\ LinesUnused

AskInstancePath ==
    /\ rojo_pc = "parsed"
    /\ \E from \in Registered(sourcemap), target \in Registered(sourcemap) :
          /\ from_file' = from
          /\ target_file' = target
          /\ instance_path' = GetInstancePath(sourcemap, from, target)
    /\ rojo_pc' = "path"
    /\ UNCHANGED <<sourcemap, resolved_file>>
    /\ UNCHANGED notSourcemap

AskFile ==
    /\ rojo_pc = "path"
    /\ resolved_file' = IF instance_path.some
                        THEN GetFileFromInstancePath(sourcemap, from_file, instance_path.value)
                        ELSE None
    /\ rojo_pc' = "file"
    /\ UNCHANGED <<sourcemap, from_file, target_file, instance_path>>
    /\ UNCHANGED notSourcemap

RojoNext ==
    \/ AskInstancePath
    \/ AskFile

SpecRojo == RojoInit /\ [][RojoNext]_vars

(***************************************************************************)
(* The initialization of a parsed manifest by itself (rojo_sourcemap.rs    *)
(* 26-69, parse 80-85): serde leaves id and parent_id of every node at 0,  *)
(* initialize numbers the nodes of the tree.  The nodes of the parsed tree *)
(* are known by their place in the document, the root is node 1.           *)
(***************************************************************************)
NoFiles(n) == [p \in 1..n |-> <<>>]
Unnumbered(doc) == [p \in 1..Len(doc.names) |-> 0]

ManifestInit ==
    /\ \E n \in 1..MaxNodes :
       \E names \in [1..n -> NodeNames], parent \in ParentMaps(n) :
          manifest = Document(n, names, NoFiles(n), parent)
    /\ initialized = None
    /\ WorkerUnused
    /\ BundlerUnused
    /\ SourcemapUnused
    /\ ExcludeUnused
    /\ RuntimeUnused
    /\ ComputeUnused
    /\ InternUnused
    /\ SourcesUnused
    /\ ScopeUnused
    /\ ProcessorUnused
    /\ CollectorUnused
    /\ ParseUnused
    /\ LinesUnused

\* rojo_sourcemap.rs 27-44: the loop starts with the root on the stack
InitializeManifest ==
    /\ ~initialized.some
    /\ initialized' = Some(InitializeLoop(manifest, <<1>>, 0, Unnumbered(manifest),
                                          Unnumbered(manifest)))
    /\ UNCHANGED manifest
    /\ UNCHANGED notManifest

ManifestNext == InitializeManifest

SpecManifest == ManifestInit /\ [][ManifestNext]_vars

(***************************************************************************)
(* The require of an excluded file (bundle/roblox_require_mode/mod.rs,     *)
(* try_inline_call 484-512).  One call require(<path>) of the file         *)
(* from_file is resolved through the manifest by require_call, the exclude *)
(* globs match the file it resolves to, and try_inline_call gives the call *)
(* a new argument.  A prefix expression is the sequence of its steps:      *)
(* <<"game">> or <<"script">>, then <<"field", name>> for .name,           *)
(* <<"Parent">> for .Parent and <<"method", m, name>> for :m("name").      *)
(***************************************************************************)
Game == <<(<<"game">>)>>
Script == <<(<<"script">>)>>
Field(prefix, name) == Append(prefix, <<"field", name>>)
Method(prefix, method, name) == Append(prefix, <<"method", method, name>>)

\* instance_path.rs 109-111
GetParentInstance(prefix) == Append(prefix, <<"Parent">>)

\* RobloxIndexStyle::Property: the child is a property of the instance
PropertyIndex(prefix, name) == Field(prefix, name)

\* instance_path.rs 58-73 and mod.rs 375-390: one step for each component
RECURSIVE ConvertComponents(_, _)
ConvertComponents(prefix, components) ==
    IF components = <<>> THEN prefix
    ELSE LET c == Head(components)
             next == IF c[1] = "Parent" THEN GetParentInstance(prefix)
                     ELSE IF c[1] = "Child" THEN PropertyIndex(prefix, c[2])
                     ELSE Method(prefix, "FindFirstAncestor", c[2])
         IN  ConvertComponents(next, Tail(components))

\* instance_path.rs 41-76: a path from the root takes its first component,
\* a service when it is a child, whatever it is
Convert(path) ==
    IF path.root = "Root"
    THEN IF path.components = <<>> THEN Game
         ELSE LET first == Head(path.components)
                  service == IF first[1] = "Child"
                             THEN Method(Game, "GetService", first[2])
                             ELSE Game
              IN  ConvertComponents(service, Tail(path.components))
    ELSE ConvertComponents(Script, path.components)

InstancePathWithGetService(path) == Convert(path)

\* mod.rs 347-393: from game whatever the root of the path, the first child
\* a field of game
InstancePathToGamePrefix(path) ==
    IF path.components = <<>> THEN Game
    ELSE LET first == Head(path.components)
         IN  IF first[1] = "Child"
             THEN ConvertComponents(Field(Game, first[2]), Tail(path.components))
             ELSE Convert(path)

\* rojo_sourcemap.rs 264-272: from the root to the first node that lists the
\* file, the root itself left out
GetAbsoluteInstancePath(sm, target) ==
    LET target_node == FindNode(sm, target)
    IN  IF ~target_node.some THEN None
        ELSE IndexDescendants(sm, FromRoot, sm.nodes[0],
                              Tail(Reverse(Hierarchy(sm, target_node.value))))

\* RobloxRequireMode::get_absolute_instance_path_for_file (called at mod.rs
\* 496): the absolute path the cached sourcemap gives
GetAbsoluteInstancePathForFile(sm, target) == GetAbsoluteInstancePath(sm, target)

\* mod.rs 441-477: the file of the path, and the path require_call returns
RequireCallFile(sm, source, path) == GetFileFromInstancePath(sm, source, path)
RequireCallPath(sm, source, path) ==
    LET found == GetInstancePath(sm, source, RequireCallFile(sm, source, path).value)
    IN  IF found.some THEN found.value ELSE path

\* mod.rs 494-498
RewritePath(sm, source, require_path, abs_instance_path) ==
    LET absolute == GetAbsoluteInstancePathForFile(sm, require_path)
        relative == GetInstancePath(sm, source, require_path)
    IN  IF absolute.some THEN absolute.value
        ELSE IF relative.some THEN relative.value
        ELSE abs_instance_path

ExcludeInit ==
    /\ \E n \in 1..MaxNodes, d \in BOOLEAN :
       \E names \in [1..n -> NodeNames], files \in [1..n -> FileLists],
          parent \in ParentMaps(n) :
          sourcemap = [is_datamodel |-> d,
                       nodes |-> Initialize(Document(n, names, files, parent))]
    /\ from_file = 0
    /\ target_file = 0
    /\ instance_path = None
    /\ resolved_file = None
    /\ rojo_pc = "parsed"
    /\ rewritten = None
    \* RequireRobloxProcessor::new (mod.rs 64-77); no block is visited
    /\ module_cache = [f \in FileIds |-> 0]
    /\ loads = [f \in FileIds |-> 0]
    /\ module_definitions = <<>>
    /\ module_name_permutator = 0
    /\ require_stack = <<>>
    /\ skip_module_paths = {}
    /\ errors = <<>>
    /\ calls = 0 /\ broken = 0 /\ frames = 0 /\ replaced = 0 /\ bundle_result = 0
    /\ shapes = 0 /\ excluded = 0 /\ entry_header = 0
    /\ WorkerUnused
    /\ RuntimeUnused
    /\ ComputeUnused
    /\ InternUnused
    /\ SourcesUnused
    /\ ScopeUnused
    /\ ManifestUnused
    /\ ProcessorUnused
    /\ CollectorUnused
    /\ ParseUnused
    /\ LinesUnused

\* require_call (mod.rs 395-482) on a call require(<path>) of from_file, the
\* path one that leads from from_file to a file of the manifest
ResolveRequire ==
    /\ rojo_pc = "parsed"
    /\ \E from \in Registered(sourcemap), target \in Registered(sourcemap) :
          /\ GetInstancePath(sourcemap, from, target).some
          /\ from_file' = from
          /\ target_file' = target
          /\ instance_path' = GetInstancePath(sourcemap, from, target)
          /\ resolved_file' = RequireCallFile(sourcemap, from,
                                              GetInstancePath(sourcemap, from, target).value)
    /\ rojo_pc' = "required"
    /\ UNCHANGED <<sourcemap, rewritten>>
    /\ UNCHANGED notExclude

\* try_inline_call (mod.rs 484-512) when the exclude globs match the file:
\* nothing is loaded, the call gets the new argument
InlineExcluded ==
    /\ rojo_pc = "required"
    /\ rewritten' =
          IF ~resolved_file.some THEN None
          ELSE Some(InstancePathToGamePrefix(
                        RewritePath(sourcemap, from_file, resolved_file.value,
                                    RequireCallPath(sourcemap, from_file, instance_path.value))))
    /\ rojo_pc' = "inlined"
    /\ UNCHANGED <<sourcemap, from_file, target_file, instance_path, resolved_file>>
    /\ UNCHANGED notExclude

ExcludeNext ==
    \/ ResolveRequire
    \/ InlineExcluded

SpecExclude == ExcludeInit /\ [][ExcludeNext]_vars

(***************************************************************************)
(* The emitted module table at run time (module_definitions.rs 244-285):   *)
(*   MOD = { cache = {},                                                   *)
(*           load = function(m)                                            *)
(*               if not MOD.cache[m] then                                  *)
(*                   MOD.cache[m] = { c = MOD[m]() }                       *)
(*               end                                                       *)
(*               return MOD.cache[m].c                                     *)
(*           end }                                                         *)
(* A Lua value is a tuple: nil, false, some other value, or the table      *)
(* { c = v }.  The body function MOD[m] is any Lua function: it returns    *)
(* one of the values or raises an error, and it may call load with another *)
(* module before it does; the code that calls load may catch the error.    *)
(***************************************************************************)
NModules == 2      \* modules of the table
MaxLoads == 3      \* calls of load with one module

Modules == 1..NModules
LuaNil == <<"nil">>
LuaFalse == <<"false">>
BodyValues == {LuaNil, LuaFalse, <<"value">>}
Truthy(value) == value # LuaNil /\ value # LuaFalse

\* module_definitions.rs 261-266: the table { c = <value> }
CacheEntry(value) == <<"table", value>>
\* module_definitions.rs 271-274: the field c of the entry
ContentOf(entry) == entry[2]

NotCachedContent(m) ==
    IF Truthy(modules_cache[m]) THEN ~Truthy(ContentOf(modules_cache[m])) ELSE TRUE

\* module_definitions.rs 258: not MOD.cache[m]
NotCached(m) == ~Truthy(modules_cache[m])

\* module_definitions.rs 278-283: cache = {} ; no module was loaded
LoadInit ==
    /\ modules_cache = [m \in Modules |-> LuaNil]
    /\ call_stack = <<>>
    /\ load_calls = [m \in Modules |-> 0]
    /\ invocations = [m \in Modules |-> 0]
    /\ completions = [m \in Modules |-> 0]
    /\ content = [m \in Modules |-> <<>>]
    /\ returned = <<>>
    /\ WorkerUnused
    /\ BundlerUnused
    /\ SourcemapUnused
    /\ ExcludeUnused
    /\ ComputeUnused
    /\ InternUnused
    /\ SourcesUnused
    /\ ScopeUnused
    /\ ManifestUnused
    /\ ProcessorUnused
    /\ CollectorUnused
    /\ ParseUnused
    /\ LinesUnused

\* load(m) is not called while the body function of m runs
CanLoad(m) ==
    /\ \A k \in 1..Len(call_stack) : call_stack[k] # m
    /\ load_calls[m] < MaxLoads

\* load(m), the entry of m in the cache: the condition is false, the field c
\* of the entry is returned (module_definitions.rs 257-274)
LoadCached(m) ==
    /\ CanLoad(m)
    /\ ~NotCached(m)
    /\ load_calls' = [load_calls EXCEPT ![m] = @ + 1]
    /\ returned' = <<m, ContentOf(modules_cache[m])>>
    /\ UNCHANGED <<modules_cache, call_stack, invocations, completions, content>>
    /\ UNCHANGED notRuntime

\* load(m), no entry of m in the cache: the body function is called
\* (module_definitions.rs 257-268)
LoadInvokes(m) ==
    /\ CanLoad(m)
    /\ NotCached(m)
    /\ load_calls' = [load_calls EXCEPT ![m] = @ + 1]
    /\ invocations' = [invocations EXCEPT ![m] = @ + 1]
    /\ call_stack' = Append(call_stack, m)
    /\ UNCHANGED <<modules_cache, completions, content, returned>>
    /\ UNCHANGED notRuntime

\* the running body function returns value: the entry is stored and load
\* returns its field c (module_definitions.rs 259-274)
BodyReturns(value) ==
    /\ call_stack # <<>>
    /\ LET m == call_stack[Len(call_stack)]
       IN  /\ modules_cache' = [modules_cache EXCEPT ![m] = CacheEntry(value)]
           /\ completions' = [completions EXCEPT ![m] = @ + 1]
           /\ content' = [content EXCEPT ![m] = IF @ = <<>> THEN value ELSE @]
           /\ returned' = <<m, ContentOf(CacheEntry(value))>>
    /\ call_stack' = SubSeq(call_stack, 1, Len(call_stack) - 1)
    /\ UNCHANGED <<load_calls, invocations>>
    /\ UNCHANGED notRuntime

\* the running body function raises an error: load stores nothing and the
\* error reaches the code that called load
BodyRaises ==
    /\ call_stack # <<>>
    /\ call_stack' = SubSeq(call_stack, 1, Len(call_stack) - 1)
    /\ UNCHANGED <<modules_cache, load_calls, invocations, completions, content, returned>>
    /\ UNCHANGED notRuntime

LoadNext ==
    \/ \E m \in Modules : LoadCached(m)
    \/ \E m \in Modules : LoadInvokes(m)
    \/ \E value \in BodyValues : BodyReturns(value)
    \/ BodyRaises

SpecLoad == LoadInit /\ [][LoadNext]_vars

(***************************************************************************)
(* The compute_expression rule (rules/compute_expression.rs) and the       *)
(* origin of the tokens it makes (utils/origin.rs).                        *)
(*                                                                         *)
(* A token is <<line, source, leading>>: the line number and the source id *)
(* are <<>> when the token has none and <<n>> otherwise, leading is the    *)
(* sequence of its leading trivia; <<>> is no token.  An expression is     *)
(*   <<kind, token>>                 a literal or another leaf             *)
(*   <<operator, token, operand>>    a unary expression                    *)
(*   <<operator, token, left, right>>  a binary expression                 *)
(*   <<"if", token, condition, result, else_result>>                       *)
(* with token the one origin.rs takes the anchor from.  The leaves are the *)
(* literals, a function call, an index of an instance declared pure and a  *)
(* table constructor that holds a function call.                           *)
(***************************************************************************)
NoToken == <<>>
NoExpression == <<>>
LiteralKinds == {"true", "false", "nil", "number", "string"}
LeafKinds == LiteralKinds \cup {"call", "instance", "table_call"}

OperatorTokens ==
    {NoToken} \cup ({<<>>, <<7>>} \X {<<>>, <<1>>} \X {<<>>, <<"--[[c]]">>})
OperandTokens == {NoToken, <<(<<9>>), (<<1>>), (<<"--[[d]]">>)>>}

Leaves == LeafKinds \X OperandTokens
BareLeaves == LeafKinds \X {NoToken}
NestedOperands ==
    {"and", "or"} \X {<<(<<8>>), (<<1>>), <<>>>>}
                  \X ({"true", "nil"} \X {NoToken})
                  \X ({"instance", "call", "number"} \X {NoToken})
UnaryExpressions == {"not", "minus"} \X OperatorTokens \X Leaves
BinaryExpressions ==
    {"and", "or", "plus"} \X OperatorTokens \X Leaves \X (Leaves \cup NestedOperands)
IfExpressions == {"if"} \X OperatorTokens \X Leaves \X BareLeaves \X BareLeaves

\* the evaluator (crate::process::Evaluator): LuaValue::is_truthy
IsTruthy(value) ==
    IF value \in {"true", "number", "string", "table"} THEN "yes"
    ELSE IF value \in {"false", "nil"} THEN "no"
    ELSE "unknown"

\* the evaluator: LuaValue::to_expression, a literal without a token
ToExpression(value) ==
    IF value \in LiteralKinds THEN <<value, NoToken>> ELSE NoExpression

\* the evaluator: evaluate, componentwise, and/or by the left operand when
\* its truthiness is decidable
RECURSIVE Evaluate(_)
Evaluate(e) ==
    IF Len(e) = 2 THEN
        IF e[1] \in LiteralKinds THEN e[1]
        ELSE IF e[1] = "table_call" THEN "table"
        ELSE "unknown"
    ELSE IF Len(e) = 3 THEN
        IF e[1] = "not" THEN
            IF IsTruthy(Evaluate(e[3])) = "yes" THEN "false"
            ELSE IF IsTruthy(Evaluate(e[3])) = "no" THEN "true"
            ELSE "unknown"
        ELSE IF Evaluate(e[3]) = "number" THEN "number" ELSE "unknown"
    ELSE IF Len(e) = 4 THEN
        IF e[1] = "and" THEN
            IF IsTruthy(Evaluate(e[3])) = "yes" THEN Evaluate(e[4])
            ELSE IF IsTruthy(Evaluate(e[3])) = "no" THEN Evaluate(e[3])
            ELSE "unknown"
        ELSE IF e[1] = "or" THEN
            IF IsTruthy(Evaluate(e[3])) = "yes" THEN Evaluate(e[3])
            ELSE IF IsTruthy(Evaluate(e[3])) = "no" THEN Evaluate(e[4])
            ELSE "unknown"
        ELSE IF Evaluate(e[3]) = "number" /\ Evaluate(e[4]) = "number" THEN "number"
        ELSE "unknown"
    ELSE
        IF IsTruthy(Evaluate(e[3])) = "yes" THEN Evaluate(e[4])
        ELSE IF IsTruthy(Evaluate(e[3])) = "no" THEN Evaluate(e[5])
        ELSE "unknown"

\* the evaluator: has_side_effects, a call has some, an expression has some
\* when one of its components has
RECURSIVE HasSideEffects(_)
HasSideEffects(e) ==
    IF Len(e) = 2 THEN e[1] \in {"call", "table_call"}
    ELSE \E k \in 3..Len(e) : HasSideEffects(e[k])

\* origin.rs 12-18: a token with a line number and a source id
FromToken(token) ==
    IF token # NoToken /\ token[1] # <<>> /\ token[2] # <<>>
    THEN <<token[1][1], token[2][1]>>
    ELSE <<>>

\* origin.rs 21-32
AnchorFromExpression(e) ==
    IF Len(e) > 2 \/ e[1] \in {"identifier", "number", "string"}
    THEN FromToken(e[2])
    ELSE <<>>

TokenFromContent(anchor) == <<<<>>, <<>>, <<>>>>

\* origin.rs 35-40: a token of the anchor's line and source, without trivia
TokenFromContentWithAnchor(anchor) == <<(<<anchor[1]>>), (<<anchor[2]>>), <<>>>>

\* compute_expression.rs 33-41, 44-52, 65-73, 80-88: the operand an and/or
\* yields when the truthiness of its left operand is decidable
ShortCircuit(binary) ==
    IF binary[1] \notin {"and", "or"} \/ IsTruthy(Evaluate(binary[3])) = "unknown"
    THEN NoExpression
    ELSE IF (binary[1] = "and") = (IsTruthy(Evaluate(binary[3])) = "yes")
    THEN binary[4]
    ELSE binary[3]

LeftAssumedPure(binary) == TRUE

\* compute_expression.rs 64, 79
LeftIsPure(binary) == ~HasSideEffects(binary[3])

RECURSIVE ReplaceWith(_)
RECURSIVE ProcessExpression(_)

\* compute_expression.rs 16-106
ReplaceWith(e) ==
    IF Len(e) = 3 \/ Len(e) = 5 THEN
        IF ~HasSideEffects(e) THEN ToExpression(Evaluate(e)) ELSE NoExpression
    ELSE IF Len(e) = 4 THEN
        IF ~HasSideEffects(e) THEN
            IF ToExpression(Evaluate(e)) # NoExpression THEN ToExpression(Evaluate(e))
            ELSE IF ShortCircuit(e) # NoExpression THEN ProcessExpression(ShortCircuit(e))
            ELSE NoExpression
        ELSE IF LeftIsPure(e) THEN ShortCircuit(e)
        ELSE NoExpression
    ELSE NoExpression

\* compute_expression.rs 110-155: the expression left in the place of e
ProcessExpression(e) ==
    LET evaluated == ReplaceWith(e)
        anchor == AnchorFromExpression(e)
    IN  IF evaluated = NoExpression THEN e
        ELSE IF anchor = <<>> THEN evaluated
        ELSE IF evaluated[1] \in {"true", "false", "nil"}
        THEN <<evaluated[1], TokenFromContentWithAnchor(anchor)>>
        ELSE IF evaluated[1] \in {"number", "string"} /\ evaluated[2] = NoToken
        THEN <<evaluated[1], TokenFromContentWithAnchor(anchor)>>
        ELSE evaluated

\* the visitor has not reached the expression
NotProcessed == <<>>

ComputeInit ==
    /\ expression \in Leaves \cup UnaryExpressions \cup BinaryExpressions \cup IfExpressions
    /\ processed = NotProcessed
    /\ WorkerUnused
    /\ BundlerUnused
    /\ SourcemapUnused
    /\ ExcludeUnused
    /\ RuntimeUnused
    /\ InternUnused
    /\ SourcesUnused
    /\ ScopeUnused
    /\ ManifestUnused
    /\ ProcessorUnused
    /\ CollectorUnused
    /\ ParseUnused
    /\ LinesUnused

\* the visitor hands the expression to process_expression
\* (compute_expression.rs 165-168, 110-155)
Process ==
    /\ processed = NotProcessed
    /\ processed' = ProcessExpression(expression)
    /\ UNCHANGED expression
    /\ UNCHANGED notCompute

ComputeNext == Process

SpecCompute == ComputeInit /\ [][ComputeNext]_vars

(***************************************************************************)
(* A source registry and the calls of intern on it, with any of NSources   *)
(* paths in any order (utils/source_registry.rs).  The ids are far below   *)
(* the 32-bit limit intern panics at.                                      *)
(***************************************************************************)
NSources == 4      \* paths handed to intern

SourcePaths == 1..NSources

\* source_registry.rs 12-14
RegistryInit ==
    /\ source_registry = EmptyRegistry
    /\ interned = None
    /\ WorkerUnused
    /\ BundlerUnused
    /\ SourcemapUnused
    /\ ExcludeUnused
    /\ RuntimeUnused
    /\ ComputeUnused
    /\ SourcesUnused
    /\ ScopeUnused
    /\ ManifestUnused
    /\ ProcessorUnused
    /\ CollectorUnused
    /\ ParseUnused
    /\ LinesUnused

\* source_registry.rs 17-31
InternPath(path) ==
    /\ source_registry' = Intern(source_registry, path)
    /\ interned' = Some(<<path, InternId(source_registry, path)>>)
    /\ UNCHANGED notIntern

RegistryNext == \E path \in SourcePaths : InternPath(path)

SpecRegistry == RegistryInit /\ [][RegistryNext]_vars

(***************************************************************************)
(* The sources of the source map (worker.rs 485-536).  A file path is      *)
(* <<spelling, components>>: the components lead from the file system root *)
(* to the file, spelling 0 is the normalized way to write them and         *)
(* spelling 1 another one ("src/./a.lua").  The bundler hands over the     *)
(* paths of the entry file and of the files inlined into the bundle, each  *)
(* in one spelling or in both.                                             *)
(***************************************************************************)
MaxSourcePaths == 3   \* longest list of paths the bundler hands over

Directories == {"src", "lib"}
FileNames == {"main", "value"}
FilePaths == {0, 1} \X {<<"project", d, f>> : d \in Directories, f \in FileNames}
SourcePathLists == UNION {[1..n -> FilePaths] : n \in 1..MaxSourcePaths}

\* worker.rs 485-499: sources_relative_to, resolved against the location of
\* the configuration, or that location, or no base
RelativeBases == {None, Some(<<0, <<"project">>>>), Some(<<1, <<"project", "src">>>>)}

\* utils::normalize_path_with_current_dir
NormalizePathWithCurrentDir(path) == <<0, path[2]>>

\* Path::strip_prefix: the components after the base, when the path starts
\* with the components of the base
StripPrefix(path, base) ==
    IF Len(base[2]) <= Len(path[2]) /\ SubSeq(path[2], 1, Len(base[2])) = base[2]
    THEN Some(SubSeq(path[2], Len(base[2]) + 1, Len(path[2])))
    ELSE None

\* worker.rs 520-530: the name a path gets in the source map
SourceName(path, base) ==
    LET p_norm == NormalizePathWithCurrentDir(path)
    IN  IF base.some
        THEN IF StripPrefix(p_norm, NormalizePathWithCurrentDir(base.value)).some
             THEN <<"relative", StripPrefix(p_norm, NormalizePathWithCurrentDir(base.value)).value>>
             ELSE <<"absolute", p_norm[2]>>
        ELSE <<"absolute", p_norm[2]>>

AddSourceAgain(names, name) == Append(names, name)

\* SourceMapBuilder::add_source (crate sourcemap): a name gets one index
AddSource(names, name) ==
    IF \E k \in 1..Len(names) : names[k] = name THEN names ELSE Append(names, name)

\* worker.rs 518-532: the loop over the paths
RECURSIVE AddSources(_, _, _)
AddSources(names, paths, base) ==
    IF paths = <<>> THEN names
    ELSE AddSources(AddSource(names, SourceName(Head(paths), base)), Tail(paths), base)

\* worker.rs 475: SourceMapBuilder::new
SourcesInit ==
    /\ source_paths \in SourcePathLists
    /\ relative_base \in RelativeBases
    /\ map_sources = None
    /\ WorkerUnused
    /\ BundlerUnused
    /\ SourcemapUnused
    /\ ExcludeUnused
    /\ RuntimeUnused
    /\ ComputeUnused
    /\ InternUnused
    /\ ScopeUnused
    /\ ManifestUnused
    /\ ProcessorUnused
    /\ CollectorUnused
    /\ ParseUnused
    /\ LinesUnused

\* worker.rs 503-536
RegisterSources ==
    /\ map_sources = None
    /\ map_sources' = Some(AddSources(<<>>, source_paths, relative_base))
    /\ UNCHANGED <<source_paths, relative_base>>
    /\ UNCHANGED notSources

SourcesNext == RegisterSources

SpecSources == SourcesInit /\ [][SourcesNext]_vars

(***************************************************************************)
(* The claims about the worker.                                            *)
(***************************************************************************)
AppliedRules(w) == progress[w].block.applied
AppliedRulesNext(w) == progress'[w].block.applied

IsNormalized(paths, w) ==
    /\ \A k \in 1..Len(paths) : paths[k][2] = 0 /\ paths[k] # NormalizePath(Source(w))
    /\ \A k, l \in 1..Len(paths) : k < l => PathLess(paths[k], paths[l])

C2_SuspensionFrame ==
    [][
        (pc = "query" \/ (pc = "decide" /\ running' = 0 /\ result'.kind = "Ok")) =>
            /\ progress'[running].block = progress[running].block
            /\ \A w \in Items \ {running} : progress'[w] = progress[w]
            /\ UNCHANGED <<deps, status, cache, written, registry, known_aliases,
                           cached_bundler, cfg>>
    ]_vars

C2_SuspendedWithCache ==
    \E w \in Items :
        /\ Idle /\ called_as = "InProgress" /\ result = Ok(w) /\ status[w] = "InProgress"
        /\ progress[w].timer = "paused"
        /\ progress[w].required_content # <<>>
        /\ AnyCached(progress[w].required_content)

\* C3: with no failing step, required content among the items' sources and no
\* cycle in it, a caller that keeps advancing the items that are not Done brings
\* every item to Done.
C3_AllDone == <>(\A w \in Items : status[w] = "Done")

C3_Waiting ==
    \E w, v \in Items :
        /\ status[w] = "InProgress" /\ progress[w].timer = "paused"
        /\ NormalizePath(Source(v)) \in Range(progress[w].required_content)
        /\ status[v] = "InProgress"
        /\ requires.fixed

\* C4: advance_work on a Done item returns Ok and changes nothing.
C4_DoneIsIdempotent ==
    [][
        \A w \in Items :
            (Idle /\ status[w] = "Done" /\ called_as' = "Done" /\ result'.item = w) =>
                /\ result' = Ok(w)
                /\ UNCHANGED <<status, progress, deps, cache, written, registry,
                               known_aliases, cached_bundler, cfg, running, pc>>
    ]_vars

C4_DoneAdvanced ==
    \E w \in Items :
        /\ Idle /\ called_as = "Done" /\ result = Ok(w) /\ status[w] = "Done"
        /\ \E v \in Items : status[v] # "Done"

\* C5: a status only moves NotStarted -> InProgress -> Done, and an item becomes
\* Done only in a step that wrote the generated code at its output path.
C5_StatusMovesForward ==
    [][
        \A w \in Items :
            /\ status[w] = "NotStarted" => status'[w] \in {"NotStarted", "InProgress"}
            /\ status[w] = "InProgress" => status'[w] \in {"InProgress", "Done"}
            /\ status[w] = "Done" => status'[w] = "Done"
            /\ (status[w] # "Done" /\ status'[w] = "Done") =>
                  /\ written'[Output(w)].kind = "code"
                  /\ written'[Output(w)].block.src = w
                  /\ written'[Output(w)].block.applied = AppliedRules(w)
    ]_vars

C5_DoneAfterRetry ==
    \E w \in Items :
        /\ status[w] = "Done"
        /\ written[Output(w)].kind = "code"
        /\ Len(written[Output(w)].block.applied) > NRules

\* C6: the work cache links the normalized source of every Done item to its
\* output, and it holds a link only for an output that was written.
C6_DoneIsCached ==
    /\ \A w \in Items :
          status[w] = "Done" => <<NormalizePath(Source(w)), Output(w)>> \in cache.links
    /\ \A l \in cache.links :
          \E w \in Items :
              /\ l = <<NormalizePath(Source(w)), Output(w)>>
              /\ written[Output(w)].kind = "code"

C6_BothCached ==
    /\ \A w \in Items : status[w] = "Done"
    /\ Cardinality(cache.links) = NItems
    /\ failures > 0

\* C7: when the rule at index i fails, the call returns a RuleError with the
\* item's source, the rule's name and i; no later rule is applied in that call,
\* nothing is written, the cache gets no link and the item is not Done.
C7_RuleFailureAborts ==
    [][
        \A w \in Items :
            (/\ Len(AppliedRulesNext(w)) = Len(AppliedRules(w)) + 1
             /\ ~AppliedRulesNext(w)[Len(AppliedRulesNext(w))].ok) =>
                /\ result' = Err(w, "RuleError", <<Source(w), RuleName(rule_index), rule_index>>)
                /\ AppliedRulesNext(w)[Len(AppliedRulesNext(w))].rule = rule_index
                /\ running' = 0
                /\ written' = written
                /\ cache'.links = cache.links
                /\ status'[w] = "InProgress"
    ]_vars

C7_SecondRuleFailed ==
    \E w \in Items :
        /\ Idle /\ result.item = w /\ result.kind = "RuleError" /\ result.detail[3] = 1
        /\ status[w] = "InProgress"
        /\ Len(AppliedRules(w)) = 2

(***************************************************************************)
(* The claims about the bundler.                                           *)
(***************************************************************************)
\* a require call of file a resolves to file b and a can be loaded
RequireEdge(a, b) == broken[a] # "missing" /\ b \in Range(calls[a])

RECURSIVE Closure(_, _)
Closure(files, n) ==
    IF n = 0 THEN files
    ELSE Closure(files \cup {b \in BundleFiles : \E a \in files : RequireEdge(a, b)}, n - 1)

RequiredBy(a) == Closure({b \in BundleFiles : RequireEdge(a, b)}, NBundled)
Reachable == Closure({Entry}, NBundled)
OnCycle(f) == f \in Reachable /\ f \in RequiredBy(f)
Bundled == bundle_result # Running
AllLoad == \A f \in BundleFiles : broken[f] = "ok"
CyclicErrors == {k \in 1..Len(errors) : errors[k].kind = "cyclic"}
NamesCycle(paths) ==
    /\ Len(paths) >= 2
    /\ paths[1] = Last(paths)
    /\ \A k \in 1..(Len(paths) - 1) : RequireEdge(paths[k], paths[k + 1])
    /\ \A k, l \in 1..(Len(paths) - 1) : k # l => paths[k] # paths[l]

\* C8 as stated: whenever a cycle can be reached from the entry file, bundling
\* fails and every file on the cycle is named by a cyclic require error.
C8_EveryCycleNamed ==
    (Bundled /\ AllLoad) =>
        \A f \in BundleFiles :
            OnCycle(f) =>
                /\ bundle_result.kind = "Err"
                /\ \E k \in CyclicErrors : f \in Range(errors[k].paths)

\* C8: when a cycle can be reached from the entry file, bundling fails and
\* reports at least one cyclic require; every cyclic require reported lists a
\* cycle of the require graph in require order, from the file the closing call
\* resolves to, through the file that holds that call, back to the former; the
\* closing call is kept as it was; the message returned is the one error, or
\* the list of them when there are several.
C8_CyclicRequireReported ==
    /\ []((Bundled /\ \E f \in BundleFiles : OnCycle(f)) =>
              bundle_result.kind = "Err" /\ CyclicErrors # {})
    /\ [](\A k \in CyclicErrors : NamesCycle(errors[k].paths))
    /\ [](Bundled => bundle_result = ApplyResult(errors))
    /\ [][CyclicRequireDetected =>
              /\ Len(errors') = Len(errors) + 1
              /\ Last(errors').kind = "cyclic"
              /\ Last(errors').paths[1] = RequirePath
              /\ Last(errors').paths[Len(Last(errors').paths) - 1] = Top.source
              /\ replaced'[Site(Top)] = Unchanged]_vars
    /\ [][\A site \in Sites : replaced[site] # Unvisited => replaced'[site] = replaced[site]]_vars

\* a cycle closed two files below the entry has been reported
C8_DeepCycleReported ==
    /\ Bundled
    /\ AllLoad
    /\ \E k \in CyclicErrors : Len(errors[k].paths) = 3 /\ errors[k].paths[1] # Entry
    /\ replaced[<<Entry, FALSE, 1>>].kind = "load"

RequiredFiles == {f \in BundleFiles : \E a \in Reachable : RequireEdge(a, f)}
DefinitionsOf(f) == {k \in 1..Len(module_definitions) : module_definitions[k].path = f}
SitesOf(f) ==
    {site \in Sites : /\ site[1] \in Reachable
                      /\ site[2] = (site[1] # Entry)
                      /\ site[3] <= Len(calls[site[1]])
                      /\ calls[site[1]][site[3]] = f}

\* C9: when the require graph has no cycle and every file loads, bundling
\* succeeds, every required file is read once and has exactly one module
\* definition, and every require call that resolves to it has become the load
\* call of that definition's name.
C9_OneDefinitionPerPath ==
    (Bundled /\ AllLoad /\ ~\E f \in BundleFiles : OnCycle(f)) =>
        /\ bundle_result.kind = "Ok"
        /\ \A f \in RequiredFiles :
              /\ Cardinality(DefinitionsOf(f)) = 1
              /\ loads[f] = 1
              /\ \A site \in SitesOf(f) :
                    \A k \in DefinitionsOf(f) :
                        replaced[site] = LoadCall(module_definitions[k].name)
        /\ \A f \in BundleFiles \ RequiredFiles : DefinitionsOf(f) = {} /\ loads[f] = 0

\* a file required from two files has been bundled
C9_RequiredTwice ==
    /\ Bundled
    /\ AllLoad
    /\ ~\E f \in BundleFiles : OnCycle(f)
    /\ \E f \in RequiredFiles :
          \E s1, s2 \in SitesOf(f) : s1[1] # s2[1] /\ replaced[s1].kind = "load"
                                       /\ replaced[s2] = replaced[s1]

(***************************************************************************)
(* The claims about the sourcemap.                                         *)
(***************************************************************************)
TargetNode == FindNode(sourcemap, target_file).value
FromNode == FindNode(sourcemap, from_file).value

\* the node is the first child of its name of its parent
FirstOfName(id) ==
    LET node == sourcemap.nodes[id]
    IN  FindChildNamed(sourcemap, sourcemap.nodes[node.parent_id], node.name) = Some(node)

\* the names from the root down to the node lead to the node and to no other
Unambiguous(node) ==
    \A k \in 1..(Len(Hierarchy(sourcemap, node)) - 1) :
        FirstOfName(Hierarchy(sourcemap, node)[k])

EmptyRootPath == instance_path = Some(FromRoot)

\* C10 as stated: for any two registered files, the instance path from the one
\* to the other exists and leads back to the other file.
C10_RoundTrip ==
    rojo_pc = "file" => instance_path.some /\ resolved_file = Some(target_file)

\* C10: for any two registered files F and G, get_instance_path(F, G) returns
\* a path; the path is the root path without component exactly when the root
\* is a DataModel, is the first node that lists G and F's node is two levels or
\* more below it, and then get_file_from_instance_path returns nothing;
\* otherwise, when no node from the first node that lists G up to the root has
\* an earlier sibling of its name, get_file_from_instance_path returns the
\* first file of that node, which is G when G is that node's first file.
C10_RoundTripToFirstFile ==
    rojo_pc = "file" =>
        /\ instance_path.some
        /\ EmptyRootPath <=> /\ sourcemap.is_datamodel
                             /\ IsRoot(TargetNode)
                             /\ Len(Hierarchy(sourcemap, FromNode)) > 2
        /\ EmptyRootPath => resolved_file = None
        /\ (~EmptyRootPath /\ Unambiguous(TargetNode)) =>
              /\ resolved_file = FirstFile(TargetNode)
              /\ TargetNode.file_paths[1] = target_file => resolved_file = Some(target_file)

\* a path from the DataModel has led back to the second file of the manifest
C10_RootPathRoundTrip ==
    /\ rojo_pc = "file"
    /\ from_file # target_file
    /\ instance_path.some
    /\ instance_path.value.root = "Root"
    /\ Len(instance_path.value.components) = 1
    /\ resolved_file = Some(target_file)

(***************************************************************************)
(* Claims on the require of an excluded file.                              *)
(***************************************************************************)
\* the names of the nodes from the child of the root down to the node
RECURSIVE NamesFromRoot(_, _)
NamesFromRoot(sm, id) ==
    IF id = 0 THEN <<>>
    ELSE Append(NamesFromRoot(sm, sm.nodes[id].parent_id), sm.nodes[id].name)

\* game.n1.n2...nk
PropertyChain(names) ==
    [k \in 1..(Len(names) + 1) |-> IF k = 1 THEN <<"game">> ELSE <<"field", names[k - 1]>>]

ExcludedNode == FindNode(sourcemap, resolved_file.value).value

\* C11: when the file a require call resolves to is excluded, the file is not
\* loaded, it gets no module definition and no module-cache entry, and the
\* argument of the call becomes game.n1...nk, n1..nk the names of the nodes
\* from the child of the manifest root down to the node of the file: fields
\* only, no GetService, whatever file the call stands in.
C11_ExcludedRewritten ==
    (rojo_pc = "inlined" /\ resolved_file.some) =>
        /\ rewritten = Some(PropertyChain(NamesFromRoot(sourcemap, ExcludedNode.id)))
        /\ loads[resolved_file.value] = 0
        /\ module_cache[resolved_file.value] = 0
        /\ \A k \in 1..Len(module_definitions) :
               module_definitions[k].path # resolved_file.value
        /\ errors = <<>>

\* a script-relative require of a file two levels below a DataModel root,
\* from another file, was rewritten
C11_ExcludedBelowService ==
    /\ rojo_pc = "inlined"
    /\ resolved_file.some
    /\ sourcemap.is_datamodel
    /\ instance_path.value.root = "Script"
    /\ from_file # resolved_file.value
    /\ rewritten.some
    /\ Len(rewritten.value) >= 3

(***************************************************************************)
(* Claims on the calls the bundler does not inline.                        *)
(***************************************************************************)
EntrySites == {site \in Sites : site[1] = Entry /\ ~site[2] /\ site[3] <= Len(calls[Entry])}

\* C12: when a bundle run has inlined no module, apply adds nothing to the
\* entry block: no modules variable, no cache/load table, no do block, and
\* the lines of its tokens are not shifted.
C12_NothingAdded ==
    (Bundled /\ module_definitions = <<>>) =>
        /\ ~entry_header.modules_variable
        /\ ~entry_header.modules_table
        /\ entry_header.functions = <<>>
        /\ ~entry_header.shifted

\* the entry file required an excluded file twice and the run is over
C12_EveryRequireExcluded ==
    /\ Bundled
    /\ module_definitions = <<>>
    /\ Len(calls[Entry]) = 2
    /\ \A site \in EntrySites : replaced[site].kind = "require"

ShapeOfTop == shapes[Top.source][Top.next]
CallKept ==
    /\ replaced'[Site(Top)] = Unchanged
    /\ UNCHANGED <<errors, skip_module_paths, require_stack, module_cache,
                   module_definitions, module_name_permutator, loads>>
NoCycle == \A f \in BundleFiles : ~OnCycle(f)
ShapesWithin(allowed) ==
    \A f \in BundleFiles : \A k \in 1..Len(shapes[f]) : shapes[f][k] \in allowed
VisitedSites == {site \in Sites : replaced[site] # Unvisited}

\* C13: a require call whose argument is no instance path, or whose path
\* the manifest resolves to no file, is left as it was and no error is
\* recorded for it; when nothing else fails (every file loads, no cycle, no
\* file excluded), bundling returns Ok.
C13_UnresolvedKept ==
    /\ [][(Visiting /\ ShapeOfTop \in {"unparsed", "unresolved"}) => CallKept]_vars
    /\ []((Bundled /\ AllLoad /\ NoCycle /\ excluded = {}
                /\ ShapesWithin({"require", "unparsed", "unresolved"}))
            => bundle_result.kind = "Ok")

\* the entry file required a file that was inlined and, with a path the
\* manifest does not resolve, one that was left alone; the run returned Ok
C13_UnresolvedBesideInlined ==
    /\ Bundled
    /\ bundle_result.kind = "Ok"
    /\ Len(shapes[Entry]) = 2
    /\ shapes[Entry][1] = "require"
    /\ shapes[Entry][2] = "unresolved"
    /\ replaced[<<Entry, FALSE, 1>>].kind = "load"
    /\ replaced[<<Entry, FALSE, 2>>] = Unchanged

\* C14: a call whose callee require is shadowed by a local binding in scope
\* at the call site is never inlined or rewritten, in the entry file or in a
\* module that is being inlined.
C14_ShadowedNeverInlined ==
    \A site \in VisitedSites :
        shapes[site[1]][site[3]] = "shadowed" => replaced[site] = Unchanged

\* C15: a call to require with method syntax, with a table for argument or
\* with no or several arguments is left unchanged; when the entry file has
\* only such calls the bundler reads no file, leaves the entry block as it
\* was and returns Ok.
C15_NotRequireLikeKept ==
    /\ [][(Visiting /\ ShapeOfTop \in {"method", "table", "none", "two"}) => CallKept]_vars
    /\ []((Bundled /\ \A k \in 1..Len(shapes[Entry]) :
                          shapes[Entry][k] \in {"method", "table", "none", "two"})
            => /\ \A site \in EntrySites : replaced[site] = Unchanged
               /\ \A f \in BundleFiles : loads[f] = 0
               /\ entry_header = NoHeader
               /\ bundle_result.kind = "Ok")

\* the entry file called require:method(<path>) with the path of a file, and
\* the run is over
C15_MethodCallKept ==
    /\ Bundled
    /\ Len(shapes[Entry]) = 1
    /\ shapes[Entry][1] = "method"
    /\ calls[Entry][1] # 0
    /\ replaced[<<Entry, FALSE, 1>>] = Unchanged

(***************************************************************************)
(* Claims on the module definitions.                                       *)
(***************************************************************************)
BuildingModule == Visited /\ Len(frames) > 1
ModuleErrors == {k \in 1..Len(errors) : errors[k].kind = "module"}

\* C16 as stated: a module block that does not end with a return of one
\* value gets return nil and is registered, unless its return has several
\* values.
C16_NilInjectedUnlessSeveral ==
    [][(BuildingModule /\ broken[Top.source] \in {"noreturn", "empty"})
          => /\ Len(module_definitions') = Len(module_definitions) + 1
             /\ Last(module_definitions').path = Top.source
             /\ Last(module_definitions').block.nil_injected]_vars

\* C16: every registered module definition has a block that ends with a
\* return of exactly one expression; return nil is put at the end of a block
\* that no return statement ends; a block whose return has no value or
\* several values makes build_module_from_resource fail, and then no
\* definition is registered and no module name is taken.
C16_SingleReturn ==
    /\ [](\A k \in 1..Len(module_definitions) :
            /\ module_definitions[k].block.returns = 1
            /\ module_definitions[k].block.nil_injected
                  <=> broken[module_definitions[k].path] = "noreturn"
            /\ broken[module_definitions[k].path] \in {"ok", "noreturn"})
    /\ [][(BuildingModule /\ broken[Top.source] \in {"invalid", "empty"})
            => /\ UNCHANGED <<module_definitions, module_name_permutator, module_cache>>
               /\ errors' = Append(errors, InvalidModule(Top.source))]_vars
    /\ [][(BuildingModule /\ broken[Top.source] = "noreturn")
            => /\ Len(module_definitions') = Len(module_definitions) + 1
               /\ Last(module_definitions').path = Top.source
               /\ Last(module_definitions').block.nil_injected]_vars

\* a module that ends with a return of no value was refused after another
\* module had been registered
C16_EmptyReturnRefused ==
    /\ Bundled
    /\ \E k \in ModuleErrors : broken[errors[k].paths[1]] = "empty"
    /\ Len(module_definitions) >= 1
    /\ module_name_permutator = Len(module_definitions)

NameOf(k) == Identifier(module_definitions[k].name)

\* C17: the names given to the modules of one bundle run are pairwise
\* distinct and none is cache or load, however many modules were named
\* before; the first module of a run is named a.
C17_NamesDistinct ==
    /\ [](\A k \in 1..Len(module_definitions) :
            /\ NameOf(k) # BUNDLE_MODULES_VARIABLE_CACHE_FIELD
            /\ NameOf(k) # BUNDLE_MODULES_VARIABLE_LOAD_FIELD
            /\ NameOf(k) # <<>>
            /\ \A l \in 1..Len(module_definitions) : k # l => NameOf(k) # NameOf(l))
    /\ [][module_name_permutator' > module_name_permutator]_module_name_permutator
    /\ [][module_name_permutator = 0 => Identifier(module_name_permutator') = <<1>>]_vars

\* the permutator passed over load: the names before and after it were given
C17_PassedOverLoad ==
    \E k \in 1..(Len(module_definitions) - 1) :
        /\ module_definitions[k].name + 2 = module_definitions[k + 1].name
        /\ Identifier(module_definitions[k].name + 1) = BUNDLE_MODULES_VARIABLE_LOAD_FIELD

(***************************************************************************)
(* Claims on the emitted module table.                                     *)
(***************************************************************************)
\* C18 as stated: over any calls of load that do not re-enter a module, the
\* body function of a module is invoked at most once.
C18_InvokedOnce == \A m \in Modules : invocations[m] <= 1

\* C18: over any calls of load that do not re-enter a module, the body
\* function of a module is invoked only by a call of load with it, it
\* returns at most once, every invocation before that one raised an error,
\* and every load of the module that returns gives what that invocation
\* returned, nil and false included.
C18_CompletedOnce ==
    /\ [](\A m \in Modules :
            /\ completions[m] <= 1
            /\ invocations[m] <= load_calls[m]
            /\ completions[m] = 0 <=> NotCached(m)
            /\ completions[m] = 1 => modules_cache[m] = CacheEntry(content[m]))
    /\ [](returned # <<>> => /\ completions[returned[1]] = 1
                             /\ returned[2] = content[returned[1]])
    /\ [][\A m \in Modules :
            invocations'[m] > invocations[m] =>
                /\ completions[m] = 0
                /\ load_calls'[m] > load_calls[m]]_vars

\* a module whose body raised an error, then returned false, then was loaded
\* again
C18_RaisedThenLoaded ==
    \E m \in Modules :
        /\ invocations[m] = 2
        /\ completions[m] = 1
        /\ load_calls[m] = 3
        /\ content[m] = LuaFalse
        /\ returned = <<m, LuaFalse>>

(***************************************************************************)
(* Claims on the compute_expression rule.                                  *)
(***************************************************************************)
Replaced == processed # NotProcessed /\ ReplaceWith(expression) # NoExpression
ReplacedByLiteral == Replaced /\ processed[1] \in LiteralKinds
Representative == expression[2]
\* the replacement is a number or a string of the expression that has a token
KeptOperand ==
    /\ HasSideEffects(expression)
    /\ ShortCircuit(expression)[1] \in {"number", "string"}
    /\ ShortCircuit(expression)[2] # NoToken

Environments == [{"call", "instance"} \X OperandTokens -> BOOLEAN]

RECURSIVE RunTruthy(_, _)
RunTruthy(e, env) ==
    IF Len(e) = 2 THEN
        IF e[1] \in {"call", "instance"} THEN env[e] ELSE e[1] \notin {"false", "nil"}
    ELSE IF e[1] = "not" THEN ~RunTruthy(e[3], env)
    ELSE IF e[1] = "and" THEN RunTruthy(e[3], env) /\ RunTruthy(e[4], env)
    ELSE IF e[1] = "or" THEN RunTruthy(e[3], env) \/ RunTruthy(e[4], env)
    ELSE IF e[1] = "if" THEN RunTruthy(IF RunTruthy(e[3], env) THEN e[4] ELSE e[5], env)
    ELSE TRUE

RECURSIVE RunEffects(_, _)
RunEffects(e, env) ==
    IF Len(e) = 2 THEN IF HasSideEffects(e) THEN <<e>> ELSE <<>>
    ELSE IF Len(e) = 3 THEN RunEffects(e[3], env)
    ELSE IF e[1] = "and" THEN
        RunEffects(e[3], env) \o (IF RunTruthy(e[3], env) THEN RunEffects(e[4], env) ELSE <<>>)
    ELSE IF e[1] = "or" THEN
        RunEffects(e[3], env) \o (IF RunTruthy(e[3], env) THEN <<>> ELSE RunEffects(e[4], env))
    ELSE IF e[1] = "if" THEN
        RunEffects(e[3], env) \o RunEffects(IF RunTruthy(e[3], env) THEN e[4] ELSE e[5], env)
    ELSE RunEffects(e[3], env) \o RunEffects(e[4], env)

\* the operand an and/or yields at run time, its left operand decidable
WouldYield(binary) ==
    IF binary[1] = "and"
    THEN IF IsTruthy(Evaluate(binary[3])) = "yes" THEN binary[4] ELSE binary[3]
    ELSE IF IsTruthy(Evaluate(binary[3])) = "yes" THEN binary[3] ELSE binary[4]

SameButToken(a, b) == a = b \/ (Len(a) = 2 /\ Len(b) = 2 /\ a[1] = b[1] /\ a[1] \in LiteralKinds)

\* C20: an expression is replaced only when it has no side effects as a
\* whole, or when it is an and/or whose left operand has none and has a
\* decidable truthiness, and then by the operand it yields; what is left
\* runs the same calls in the same order and is as truthy as the expression.
C20_EffectsKept ==
    processed # NotProcessed =>
        /\ processed # expression =>
              \/ ~HasSideEffects(expression)
              \/ /\ expression[1] \in {"and", "or"}
                 /\ Len(expression) = 4
                 /\ ~HasSideEffects(expression[3])
                 /\ IsTruthy(Evaluate(expression[3])) # "unknown"
                 /\ SameButToken(processed, WouldYield(expression))
        /\ Len(expression) = 2 => processed = expression
        /\ \A env \in Environments :
              /\ RunEffects(processed, env) = RunEffects(expression, env)
              /\ RunTruthy(processed, env) = RunTruthy(expression, env)

\* an and whose left operand is true and whose right operand is a call
\* became the call
C20_CallKept ==
    /\ processed # NotProcessed
    /\ Len(expression) = 4
    /\ expression[1] = "and"
    /\ expression[3][1] = "true"
    /\ expression[4][1] = "call"
    /\ processed = expression[4]

(***************************************************************************)
(* Claims on the source registry.                                          *)
(***************************************************************************)
Ids(reg) == 0..(Len(reg.id_to_path) - 1)

\* C21: after any calls of intern, the path-to-id map and the id-to-path
\* vector are inverse of each other over exactly the ids 0..len-1; interning
\* a known path returns its earlier id and leaves the registry as it is,
\* interning a new path returns the previous len, and an id given to a path
\* stays with that path.
C21_RegistryInverse ==
    /\ [](/\ Len(source_registry.path_to_id) = Len(source_registry.id_to_path)
          /\ {e[2] : e \in Range(source_registry.path_to_id)} = Ids(source_registry)
          /\ \A e \in Range(source_registry.path_to_id) :
                GetPath(source_registry, e[2]) = Some(e[1])
          /\ \A id \in Ids(source_registry) :
                GetId(source_registry, GetPath(source_registry, id).value) = Some(id))
    /\ [][/\ \A id \in Ids(source_registry) :
                GetPath(source_registry', id) = GetPath(source_registry, id)
          /\ \A path \in SourcePaths :
                interned'.value[1] = path =>
                    IF RegistryKnows(source_registry, path)
                    THEN /\ source_registry' = source_registry
                         /\ Some(interned'.value[2]) = GetId(source_registry, path)
                    ELSE /\ interned'.value[2] = Len(source_registry.id_to_path)
                         /\ GetId(source_registry', path) = Some(interned'.value[2])]_vars

\* every path is interned, and the first one was interned again: it has
\* kept the id 0
C21_InternedAgain ==
    /\ Len(source_registry.id_to_path) = NSources
    /\ interned = Some(<<source_registry.id_to_path[1], 0>>)

(***************************************************************************)
(* Claims on the sources of the source map.                                *)
(***************************************************************************)
\* the files of the bundle, however their paths are written
BundleFilesOf(paths) == {paths[k][2] : k \in 1..Len(paths)}
UnderBase(file) ==
    /\ relative_base.some
    /\ Len(relative_base.value[2]) <= Len(file)
    /\ SubSeq(file, 1, Len(relative_base.value[2])) = relative_base.value[2]
NamedOnce(names, name) == Cardinality({k \in 1..Len(names) : names[k] = name}) = 1

NBlocks == 3       \* blocks of the file, the root block being block 1
MaxStatements == 3 \* statements of a block that are a call or a nested block
NPaths == 2        \* instance paths a local is initialised with

Blocks == 1..NBlocks
RootBlock == 1
CallStatement == 0   \* the statement `require(m)`; another number is a nested block

\* the blocks nested directly in `block`
Children(parent, block) == {b \in Blocks \ {RootBlock} : parent[b] = block}

\* the statements of a block: every nested block once, and calls
StatementLists(parent, block) ==
    {s \in UNION {[1..n -> {CallStatement} \cup Children(parent, block)] : n \in 0..MaxStatements} :
        \A b \in Children(parent, block) :
            Cardinality({k \in 1..Len(s) : s[k] = b}) = 1}

\* resolve_in_block: the first `local m = <path>` of the block whose value
\* parses to a path; 0 stands for a block without one
ResolveInBlock(block) ==
    IF file_block.locals[block] = 0 THEN None ELSE Some(file_block.locals[block])

\* resolve_identifier_to_instance_path
ResolveIdentifierToInstancePath(current, root) ==
    IF ResolveInBlock(current).some
    THEN ResolveInBlock(current)
    ELSE ResolveInBlock(root)

ScopeInit ==
    /\ \E parent \in [Blocks -> 0..NBlocks] :
          /\ parent[RootBlock] = 0
          /\ \A b \in Blocks \ {RootBlock} : parent[b] \in 1..(b - 1)
          /\ \E locals \in [Blocks -> 0..NPaths] :
             \E statements \in [Blocks -> UNION {StatementLists(parent, b) : b \in Blocks}] :
                /\ \A b \in Blocks : statements[b] \in StatementLists(parent, b)
                /\ file_block = [parent |-> parent, locals |-> locals,
                                 statements |-> statements]
    \* RequireRobloxProcessor::new: both clones are the block of the file
    /\ current_block_clone = RootBlock
    /\ root_block_clone = RootBlock
    \* ScopeVisitor::visit_block on the block of the file
    /\ visit_stack = <<(<<RootBlock, 1>>)>>
    /\ resolved_paths = <<>>
    /\ WorkerUnused
    /\ BundlerUnused
    /\ SourcemapUnused
    /\ ExcludeUnused
    /\ RuntimeUnused
    /\ ComputeUnused
    /\ InternUnused
    /\ SourcesUnused
    /\ ManifestUnused
    /\ ProcessorUnused
    /\ CollectorUnused
    /\ ParseUnused
    /\ LinesUnused

VisitedBlock == visit_stack[Len(visit_stack)][1]
NextStatement == visit_stack[Len(visit_stack)][2]
AtStatement ==
    /\ visit_stack # <<>>
    /\ NextStatement <= Len(file_block.statements[VisitedBlock])
StepOver(stack) ==
    [stack EXCEPT ![Len(stack)] = <<stack[Len(stack)][1], stack[Len(stack)][2] + 1>>]

\* the visitor enters a nested block: process_scope
ProcessScope ==
    /\ AtStatement
    /\ file_block.statements[VisitedBlock][NextStatement] # CallStatement
    /\ current_block_clone' = file_block.statements[VisitedBlock][NextStatement]
    /\ visit_stack' = Append(visit_stack,
                             <<file_block.statements[VisitedBlock][NextStatement], 1>>)
    /\ UNCHANGED <<file_block, root_block_clone, resolved_paths>>
    /\ UNCHANGED notScope

\* the visitor is at a call `require(m)`: process_expression, try_inline_call
ProcessRequireCall ==
    /\ AtStatement
    /\ file_block.statements[VisitedBlock][NextStatement] = CallStatement
    /\ resolved_paths' =
          Append(resolved_paths,
                 [block |-> VisitedBlock,
                  after_nested |-> \E k \in 1..(NextStatement - 1) :
                        file_block.statements[VisitedBlock][k] # CallStatement,
                  path |-> ResolveIdentifierToInstancePath(current_block_clone,
                                                           root_block_clone)])
    /\ visit_stack' = StepOver(visit_stack)
    /\ UNCHANGED <<file_block, current_block_clone, root_block_clone>>
    /\ UNCHANGED notScope

\* the visitor has visited the statements of a block and leaves it
LeaveBlock ==
    /\ visit_stack # <<>>
    /\ ~AtStatement
    /\ visit_stack' = IF Len(visit_stack) = 1 THEN <<>>
                      ELSE StepOver(SubSeq(visit_stack, 1, Len(visit_stack) - 1))
    /\ UNCHANGED <<file_block, current_block_clone, root_block_clone, resolved_paths>>
    /\ UNCHANGED notScope

ScopeNext == ProcessScope \/ ProcessRequireCall \/ LeaveBlock

SpecScope == ScopeInit /\ [][ScopeNext]_vars

(***************************************************************************)
(* Claims on the resolution of a local identifier.                         *)
(***************************************************************************)
\* what the enclosing block, and failing that the root block, gives
LexicalPath(block) ==
    IF file_block.locals[block] # 0 THEN Some(file_block.locals[block])
    ELSE IF file_block.locals[RootBlock] # 0 THEN Some(file_block.locals[RootBlock])
    ELSE None

\* C24 as stated: the identifier of every require call visited is resolved
\* in the block that encloses the call, and failing that in the root block
\* of the file, also when the visitor has left a nested block before.
C24_EnclosingBlockFirst ==
    \A k \in 1..Len(resolved_paths) :
        resolved_paths[k].path = LexicalPath(resolved_paths[k].block)

(***************************************************************************)
(* Claims on the choice between a path from the script and a path from the *)
(* DataModel.                                                              *)
(***************************************************************************)
\* how many levels below the root a node is
Depth(node) == Len(Hierarchy(sourcemap, node)) - 1

\* the nearest node that is above both nodes, or one of them
NearestCommonAncestor(a, b) ==
    LET common == Range(Hierarchy(sourcemap, a)) \cap Range(Hierarchy(sourcemap, b))
    IN  sourcemap.nodes[CHOOSE id \in common :
            \A other \in common : Depth(sourcemap.nodes[other]) <= Depth(sourcemap.nodes[id])]

\* the Child steps from a node above `node` down to it
ChildSteps(above, node) ==
    LET ids == Hierarchy(sourcemap, node)
        n == Depth(node) - Depth(above)
    IN  [k \in 1..n |-> ChildComponent(sourcemap.nodes[ids[n + 1 - k]].name)]

ParentSteps(n) == [k \in 1..n |-> ParentComponent]

ScriptDistance ==
    Depth(FromNode) + Depth(TargetNode)
        - 2 * Depth(NearestCommonAncestor(FromNode, TargetNode))

ScriptRootedPath ==
    LET above == NearestCommonAncestor(FromNode, TargetNode)
    IN  [root |-> "Script",
         components |-> ParentSteps(Depth(FromNode) - Depth(above))
                            \o ChildSteps(above, TargetNode)]

DataModelRootedPath ==
    [root |-> "Root", components |-> ChildSteps(sourcemap.nodes[0], TargetNode)]

\* C25 as stated: the path is the one from the script exactly when it has
\* fewer steps than the one from the DataModel, and else the one from the
\* DataModel.
C25_ScriptPathWhenShorter ==
    rojo_pc = "path" =>
        instance_path =
            Some(IF ScriptDistance < Len(DataModelRootedPath.components)
                 THEN ScriptRootedPath ELSE DataModelRootedPath)

\* C25: get_instance_path returns the path from the script (Parent steps up
\* to the nearest common ancestor, then Child steps down to the target) when
\* the root of the manifest is not a DataModel, and when it is one and the
\* path from the script has at most one step more than the path from the
\* DataModel (at most as many steps as there are nodes from the target up
\* to the root, the root included); otherwise it returns the path from the
\* DataModel, the Child steps from below the root down to the target.
C25_ScriptPathChoice ==
    rojo_pc = "path" =>
        instance_path =
            Some(IF \/ ~sourcemap.is_datamodel
                    \/ ScriptDistance <= Len(DataModelRootedPath.components) + 1
                 THEN ScriptRootedPath ELSE DataModelRootedPath)

\* below a DataModel, a path from the script was returned that is a step
\* longer than the path from the DataModel
C25_LongerScriptPath ==
    /\ rojo_pc = "path"
    /\ sourcemap.is_datamodel
    /\ instance_path.some
    /\ instance_path.value.root = "Script"
    /\ Len(instance_path.value.components) = Depth(TargetNode) + 1
    /\ Depth(TargetNode) >= 1

(***************************************************************************)
(* get_file_from_instance_path on the paths a require call can spell: any  *)
(* root, any components, the last one an Ancestor.                         *)
(***************************************************************************)
MaxAncestorNodes == 3 \* nodes of a manifest
MaxComponents == 2    \* components of an instance path

PathComponents ==
    {ParentComponent} \cup {ChildComponent(n) : n \in NodeNames}
        \cup {AncestorComponent(n) : n \in NodeNames}

AncestorPaths ==
    {[root |-> r, components |-> Append(front, AncestorComponent(n))] :
        r \in {"Root", "Script"}, n \in NodeNames,
        front \in UNION {[1..k -> PathComponents] : k \in 0..(MaxComponents - 1)}}

AncestorInit ==
    /\ \E n \in 1..MaxAncestorNodes, d \in BOOLEAN :
       \E names \in [1..n -> NodeNames],
          files \in [1..n -> {l \in FileLists : Len(l) <= 1}],
          parent \in ParentMaps(n) :
          sourcemap = [is_datamodel |-> d,
                       nodes |-> Initialize(Document(n, names, files, parent))]
    /\ from_file = 0
    /\ target_file = 0
    /\ instance_path = None
    /\ resolved_file = None
    /\ rojo_pc = "parsed"
    /\ WorkerUnused
    /\ BundlerUnused
    /\ ExcludeUnused
    /\ RuntimeUnused
    /\ ComputeUnused
    /\ InternUnused
    /\ SourcesUnused
    /\ ScopeUnused
    /\ ManifestUnused
    /\ ProcessorUnused
    /\ CollectorUnused
    /\ ParseUnused
    /\ LinesUnused

\* get_file_from_instance_path on a path that ends with an Ancestor
AskAncestor ==
    /\ rojo_pc = "parsed"
    /\ \E from \in Registered(sourcemap), path \in AncestorPaths :
          /\ from_file' = from
          /\ instance_path' = Some(path)
          /\ resolved_file' = GetFileFromInstancePath(sourcemap, from, path)
    /\ rojo_pc' = "ancestor"
    /\ UNCHANGED <<sourcemap, target_file>>
    /\ UNCHANGED notSourcemap

AncestorNext == AskAncestor

SpecAncestor == AncestorInit /\ [][AncestorNext]_vars

(***************************************************************************)
(* Claims on the Ancestor component.                                       *)
(***************************************************************************)
\* the node the components before the last one lead to
NodeBefore ==
    TargetNodeOf(sourcemap, from_file,
                 [instance_path.value EXCEPT !.components = Front(@)])

\* the ancestors of the node that bear the name, the node itself left out
ProperAncestorsNamed(node, name) ==
    {id \in Range(Tail(Hierarchy(sourcemap, node))) : sourcemap.nodes[id].name = name}

NearestOf(ids) ==
    sourcemap.nodes[CHOOSE id \in ids :
        \A other \in ids : Depth(sourcemap.nodes[other]) <= Depth(sourcemap.nodes[id])]

\* C26 as stated: an Ancestor(name) component leads from the current node
\* to its nearest proper ancestor of that name, never to the current node
\* itself, and the resolution gives nothing when no proper ancestor bears
\* the name.
C26_ProperAncestorOnly ==
    (rojo_pc = "ancestor" /\ NodeBefore.some) =>
        LET named == ProperAncestorsNamed(NodeBefore.value,
                                          Last(instance_path.value.components)[2])
        IN  resolved_file = IF named = {} THEN None ELSE FirstFile(NearestOf(named))

(***************************************************************************)
(* Claims on the order the rules are applied in.                           *)
(***************************************************************************)
\* the indexes of the rules that were run on the block, in the order of
\* the runs
RulesRun(block) == [k \in 1..Len(block.applied) |-> block.applied[k].rule]

\* C28 as stated: whatever calls of advance_work an item gets, after a
\* suspension or after a rule error, the rules that were run on its block
\* were run in the order of the configuration and none of them twice.
C28_RulesAppliedOnce ==
    \A w \in Items :
        \A k, l \in 1..Len(RulesRun(progress[w].block)) :
            k < l => RulesRun(progress[w].block)[k] < RulesRun(progress[w].block)[l]

(***************************************************************************)
(* Claims on the file dependencies of a work item.                         *)
(***************************************************************************)
\* the rule that was run on the block of w in this step, if one was
RuleRunOn(w) ==
    IF Len(progress'[w].block.applied) > Len(progress[w].block.applied)
    THEN Some(progress'[w].block.applied[Len(progress'[w].block.applied)])
    ELSE None

\* the bundler was run on w in this step
BundlerRunOn(w) ==
    /\ cfg.bundle
    /\ status[w] = "NotStarted"
    /\ \/ status'[w] = "InProgress"
       \/ failures' > failures /\ result'.kind = "BundleError" /\ result'.item = w

\* C30: every time a rule is run on the block of a work item, whether it
\* succeeds or returns an error, the dependencies of its context are added
\* to the item's external_file_dependencies; so are the bundler's, also
\* when the bundler fails; and no dependency is ever taken away.
C30_DependenciesKept ==
    [][\A w \in Items :
          /\ deps[w] \subseteq deps'[w]
          /\ RuleRunOn(w).some => RuleDeps(RuleRunOn(w).value.rule) \subseteq deps'[w]
          /\ BundlerRunOn(w) => BundleDeps \subseteq deps'[w]]_vars

\* the second rule has failed on a bundled item: the item has the
\* dependencies of the bundler, of the first rule and of the failed rule
C30_FailedRuleDeposited ==
    /\ cfg.bundle
    /\ result.kind = "RuleError"
    /\ result.detail[3] = 1
    /\ ~progress[result.item].block.applied[2].ok
    /\ deps[result.item] = BundleDeps \cup RuleDeps(0) \cup RuleDeps(1)

(***************************************************************************)
(* Claims on work items that require each other.                           *)
(***************************************************************************)
\* two items that each have a rule whose required content holds the other
RequireEachOther(a, b) ==
    /\ a # b
    /\ RequiresItem(requires.of, a, b)
    /\ RequiresItem(requires.of, b, a)

\* the item was suspended and has not been taken up again
Suspended(w) == status[w] = "InProgress" /\ progress[w].required_content # <<>>

\* C27: when two work items require each other, neither ever becomes Done,
\* whatever the order they are advanced in; and every advance of one that
\* was suspended returns Ok and leaves it suspended at the same rule with
\* the same required content.
C27_CycleNeverDone ==
    [][\A a, b \in Items :
          RequireEachOther(a, b) =>
              /\ status'[a] # "Done"
              /\ (Suspended(a) /\ running = a /\ running' = 0) =>
                    /\ result' = Ok(a)
                    /\ Suspended(a)'
                    /\ progress'[a].next_rule = progress[a].next_rule
                    /\ progress'[a].required_content = progress[a].required_content]_vars

\* two items require each other, both were suspended, and the second was
\* advanced again: it is suspended as before
C27_SuspendedAgain ==
    /\ RequireEachOther(1, 2)
    /\ Suspended(1) /\ Suspended(2)
    /\ progress[1].next_rule = 1
    /\ running = 0
    /\ called_as = "InProgress"
    /\ result = Ok(2)

(***************************************************************************)
(* Claims on the paths whose inlining has failed.                          *)
(***************************************************************************)
\* the path an error was recorded for: the path of the call that failed
ErrorPath(error) == error.paths[1]

\* the errors a result reports, in the order it reports them
ReportedErrors(bundled) ==
    IF bundled.kind # "Err" THEN <<>>
    ELSE IF bundled.message.kind = "list" THEN bundled.message.paths
    ELSE <<bundled.message>>

\* the calls kept as they were that resolve to the path
KeptCallsTo(path) ==
    {site \in Sites : /\ site[3] <= Len(calls[site[1]])
                      /\ calls[site[1]][site[3]] = path
                      /\ replaced[site] = Unchanged}

\* C29 as stated, its part on the error list: the list holds at most one
\* entry per path.
C29_OneErrorPerPath ==
    \A k, l \in 1..Len(errors) : k # l => ErrorPath(errors[k]) # ErrorPath(errors[l])

\* C29: in one bundle run, a require call met after the inlining of the
\* path it resolves to has failed is left unchanged, the path is not loaded
\* again and no error is recorded at that call; the paths of the error list
\* are the paths that are skipped, and the list holds one entry per path,
\* or two when a cyclic require of the path was detected while the path was
\* being loaded and its module was refused afterwards; the run fails
\* exactly when the list has an entry, and its message has every recorded
\* error in the order they were recorded.
C29_FailedPathSkipped ==
    /\ [][(Inlining /\ RequirePath \in skip_module_paths) =>
              /\ replaced'[Site(Top)] = Unchanged
              /\ loads' = loads
              /\ errors' = errors
              /\ module_definitions' = module_definitions]_vars
    /\ [](/\ \A k, l \in 1..Len(errors) :
                (k < l /\ ErrorPath(errors[k]) = ErrorPath(errors[l])) =>
                    errors[k].kind = "cyclic" /\ errors[l].kind = "module"
          /\ skip_module_paths = {ErrorPath(errors[k]) : k \in 1..Len(errors)}
          /\ \A f \in BundleFiles : loads[f] <= 1)
    /\ [](Bundled =>
              /\ bundle_result.kind = "Err" <=> errors # <<>>
              /\ ReportedErrors(bundle_result) = errors)

\* a bundle run has failed with two errors, and a path that had failed was
\* required again: both calls are kept
C29_FailedPathRequiredAgain ==
    /\ Bundled
    /\ Len(errors) = 2
    /\ \E path \in skip_module_paths : Cardinality(KeptCallsTo(path)) >= 2

(***************************************************************************)
(* A failure before the item is InProgress (worker.rs 222-277, 695-747)    *)
(***************************************************************************)
NotStartedErrors == {"ResourceNotFound", "ParserError", "BundleError"}

\* advance_work was called for w while NotStarted and returned in this step
ReturnedWhileNotStarted(w) ==
    /\ Idle
    /\ status[w] = "NotStarted"
    /\ called_as' = "NotStarted"
    /\ running' = 0
    /\ failures' = failures + 1

\* C31: when the read of the source, the parser or the bundler fails for an
\* item that is NotStarted, advance_work returns that error for the item, the
\* item is NotStarted afterwards, nothing is written and the work cache is
\* as it was.
C31_FailureKeepsNotStarted ==
    [][\A w \in Items :
          ReturnedWhileNotStarted(w) /\ result'.item = w =>
              /\ result'.kind \in NotStartedErrors
              /\ result'.detail = <<Source(w)>>
              /\ status'[w] = "NotStarted"
              /\ progress'[w] = NoProgress
              /\ written' = written
              /\ cache' = cache]_vars

\* the bundler has failed for an item that is still NotStarted
C31_BundleFailed ==
    /\ result.kind = "BundleError"
    /\ status[result.item] = "NotStarted"
    /\ cached_bundler

(***************************************************************************)
(* The source map of the generated code (worker.rs 573-633, 673-680)       *)
(***************************************************************************)
\* the step leaves apply_rules after the last rule of item w, the source map
\* was asked for and this step did not write it
LeavesWithoutSourceMap(w) ==
    /\ running = w
    /\ pc = "generate"
    /\ cfg.sourcemap
    /\ running' = 0
    /\ written'[SourcemapOutput] # SourceMap(w)

\* C32: a source map that could not be serialized or written is not an error
\* of the work item: no error names the source map's path, and unless the
\* write of the item's own output (or of its debugging view) fails, the
\* generated code is written to the item's output, the source is linked to it
\* in the work cache and the item is Done.
C32_SourceMapFailureIgnored ==
    [][\A w \in Items :
          LeavesWithoutSourceMap(w) =>
              \/ /\ result' = Ok(w)
                 /\ status'[w] = "Done"
                 /\ written'[Output(w)] = LuaCode(w)
                 /\ cache' = Linked(w)
              \/ /\ result' = Err(w, "WriteError", <<Output(w)>>)
                 /\ failures' = failures + 1]_vars

\* every item is Done with its code written, a source map was asked for and
\* none was ever written
C32_DoneWithoutSourceMap ==
    /\ cfg.sourcemap
    /\ written[SourcemapOutput] = NoFile
    /\ \A w \in Items : status[w] = "Done" /\ written[Output(w)].kind = "code"
                        /\ CacheContains(NormalizePath(Source(w)))

(***************************************************************************)
(* Claims on the process-wide instance-alias set (worker.rs 263-272,       *)
(* 386-436).                                                               *)
(***************************************************************************)
\* the block an alias was collected from
AliasSource(alias) == alias[2]

\* the cleanup pass of item w runs in this step: the loop of apply_rules was
\* left and the call returns
CleanupRunOn(w) == running = w /\ pc = "generate" /\ running' = 0

C37_AliasSetEmptyAfterItem ==
    (/\ Idle
     /\ result.kind # "none"
     /\ (status[result.item] = "Done" \/ result.kind # "Ok")) => known_aliases = {}

(***************************************************************************)
(* Claims on the ids initialize gives (rojo_sourcemap.rs 26-69).           *)
(***************************************************************************)
ManifestNodes == 1..Len(manifest.names)

\* the node of the parsed tree that has p among its children
ActualParent(p) == CHOOSE q \in ManifestNodes : p \in Range(manifest.kids[q])

\* is_root (rojo_sourcemap.rs 66-68) of the node at place p
IsRootAt(p) == initialized.value.ids[p] = initialized.value.parent_ids[p]

\* C40: after initialize, whatever the shape of the tree, no two nodes have
\* the same id, the parent_id of every node but the root is the id of the
\* node it is a child of, and is_root holds for the root and for no other
\* node.
C40_IdsOfInitializedTree ==
    initialized.some =>
        /\ \A p, q \in ManifestNodes :
              p # q => initialized.value.ids[p] # initialized.value.ids[q]
        /\ \A p \in ManifestNodes \ {1} :
              initialized.value.parent_ids[p] = initialized.value.ids[ActualParent(p)]
        /\ \A p \in ManifestNodes : IsRootAt(p) <=> p = 1

\* an initialized tree of four nodes where the root has two children and the
\* first of them a child of its own
C40_TreeWithGrandchild ==
    /\ initialized.some
    /\ Len(manifest.names) = MaxNodes
    /\ manifest.kids[1] = <<2, 3>>
    /\ manifest.kids[2] = <<4>>
    /\ initialized.value.ids[4] > initialized.value.ids[3]

(***************************************************************************)
(* Claims on the require stack and the fields require_resource replaces    *)
(* (mod.rs 532-575, 615-634).                                              *)
(***************************************************************************)
\* the modules being loaded, outermost first: every block being visited but
\* the entry block
LoadedChain == [k \in 1..(Len(frames) - 1) |-> frames[k + 1].source]

NoPathTwice(stack) == \A i, j \in 1..Len(stack) : i # j => stack[i] # stack[j]

\* the fields of the processor are those of the file whose block is visited
FieldsOf(path) ==
    /\ self_source = path
    /\ current_block_clone = BlockClone(path)
    /\ root_block_clone = BlockClone(path)

\* C39: during a bundle run the require stack is the chain of the modules
\* being loaded, outermost first, and holds no path twice; a call of
\* inline_require that returns, with a module or with an error, leaves the
\* stack, the source path and the two block snapshots as they were when it
\* was made (those of the file the call stands in); the stack is empty when
\* the entry block has been traversed.
C39_RequireStackBalanced ==
    /\ [](/\ require_stack = LoadedChain
          /\ NoPathTwice(require_stack)
          /\ FieldsOf(Top.source)
          /\ bundle_result # Running => require_stack = <<>> /\ FieldsOf(Entry))
    /\ [][Len(frames') <= Len(frames) =>
              /\ require_stack' = SubSeq(require_stack, 1, Len(frames') - 1)
              /\ self_source' = frames[Len(frames')].source
              /\ current_block_clone' = BlockClone(frames[Len(frames')].source)
              /\ root_block_clone' = BlockClone(frames[Len(frames')].source)]_vars

\* the traversal is back in the entry block after a module that had loaded
\* another one was built and after a call of inline_require that failed
C39_BackInEntry ==
    /\ bundle_result = Running
    /\ Len(frames) = 1
    /\ errors # <<>>
    /\ require_stack = <<>>
    /\ \E j, k \in 1..Len(module_definitions) :
          /\ j < k
          /\ module_definitions[j].path \in Range(calls[module_definitions[k].path])
          /\ loads[module_definitions[j].path] = 1

(***************************************************************************)
(* The instance-alias collector over a block (worker.rs 26-107, 263-267).  *)
(* An expression is the sequence of its steps, as above: its first element *)
(* is <<"script">>, <<"game">>, <<"id", name>> or <<"number">> (whatever   *)
(* is not a prefix expression), the others are <<"field", name>>,          *)
(* <<"Parent">>, <<"index", name>> for ["name"], <<"index_expr">> for an   *)
(* index that is not a string literal, <<"method", m, name>> for           *)
(* :m("name"), <<"method_expr", m>> for :m(...) whose first argument is    *)
(* not a string literal, <<"call">> for a call without a method and        *)
(* <<"paren">> for parentheses around what comes before.  A statement is   *)
(* <<"local", name, expression>> or <<"do", block>> / <<"function", block>>*)
(* for a nested block and the body of a function.                          *)
(***************************************************************************)
NAliasNames == 2   \* identifiers of a block
MaxTopLevel == 2   \* statements of a block

AliasNames == 1..NAliasNames
IndexingMethods == {"WaitForChild", "FindFirstChild", "FindFirstAncestor", "GetService"}
MethodNames == IndexingMethods \cup {"Clone"}

\* worker.rs 42-65: the call is a method call of a supported name whose
\* first argument is a string literal
CallHasIndexingSemantics(step) == step[1] = "method" /\ step[2] \in IndexingMethods

\* worker.rs 67-96: prefix_is_instance_path and expression_is_instance_path
RECURSIVE ExpressionIsInstancePath(_, _)
ExpressionIsInstancePath(expr, known) ==
    LET step == Last(expr)
        prefix == Front(expr)
    IN  IF Len(expr) = 1
        THEN \/ step[1] \in {"script", "game"}
             \/ step[1] = "id" /\ step[2] \in known
        ELSE IF step[1] \in {"field", "Parent"} THEN ExpressionIsInstancePath(prefix, known)
        ELSE IF step[1] = "index" THEN ExpressionIsInstancePath(prefix, known)
        ELSE IF step[1] \in {"method", "method_expr", "call"}
             THEN CallHasIndexingSemantics(step) /\ ExpressionIsInstancePath(prefix, known)
        ELSE IF step[1] = "paren" THEN ExpressionIsInstancePath(prefix, known)
        ELSE FALSE

\* worker.rs 98-102: process_local_assign_statement
ProcessLocalAssignStatement(known, assign) ==
    IF ExpressionIsInstancePath(assign[3], known) THEN known \cup {assign[2]} ELSE known

\* as VisitBlock, but the statements inside other statements are passed over
RECURSIVE VisitTopLevel(_, _)
VisitTopLevel(block, known) ==
    IF block = <<>> THEN known
    ELSE LET statement == Head(block)
         IN  VisitTopLevel(Tail(block),
                           IF statement[1] = "local"
                           THEN ProcessLocalAssignStatement(known, statement)
                           ELSE known)

\* DefaultVisitor::visit_block (worker.rs 265-266): every statement of the
\* block in order, and the blocks inside a statement when it is reached
RECURSIVE VisitBlock(_, _)
VisitBlock(block, known) ==
    IF block = <<>> THEN known
    ELSE LET statement == Head(block)
         IN  VisitBlock(Tail(block),
                        IF statement[1] = "local"
                        THEN ProcessLocalAssignStatement(known, statement)
                        ELSE VisitBlock(statement[2], known))

AliasRoots == {<<"script">>, <<"game">>, <<"number">>} \cup {<<"id", n>> : n \in AliasNames}
AliasSteps ==
    {<<"field", 1>>, <<"Parent">>, <<"index", 1>>, <<"index_expr">>, <<"call">>, <<"paren">>}
        \cup {<<"method", m, 1>> : m \in MethodNames}
        \cup {<<"method_expr", m>> : m \in {"WaitForChild"}}
AliasExpressions == {<<r>> : r \in AliasRoots} \cup {<<r, s>> : r \in AliasRoots, s \in AliasSteps}
LocalAssigns == {<<"local", n, e>> : n \in AliasNames, e \in AliasExpressions}
CollectorStatements ==
    LocalAssigns \cup {<<kind, <<l>>>> : kind \in {"do", "function"}, l \in LocalAssigns}

CollectorInit ==
    /\ \E n \in 1..MaxTopLevel : collector_block \in [1..n -> CollectorStatements]
    /\ collected = None
    /\ WorkerUnused
    /\ BundlerUnused
    /\ SourcemapUnused
    /\ ExcludeUnused
    /\ RuntimeUnused
    /\ ComputeUnused
    /\ InternUnused
    /\ SourcesUnused
    /\ ScopeUnused
    /\ ManifestUnused
    /\ ProcessorUnused
    /\ ParseUnused
    /\ LinesUnused

\* worker.rs 264-267: a new collector visits the block
Collect ==
    /\ ~collected.some
    /\ collected' = Some(VisitBlock(collector_block, {}))
    /\ UNCHANGED collector_block
    /\ UNCHANGED notCollector

CollectorNext == Collect

SpecCollector == CollectorInit /\ [][CollectorNext]_vars

(***************************************************************************)
(* Claims on the collected aliases.                                        *)
(***************************************************************************)
\* an initializer built from script, game or one of the aliases through
\* fields, string-literal indexes and the whitelisted methods with a
\* string-literal argument (parentheses change nothing)
InstancePathExpression(expr, aliases) ==
    /\ \/ expr[1][1] \in {"script", "game"}
       \/ expr[1][1] = "id" /\ expr[1][2] \in aliases
    /\ \A k \in 2..Len(expr) :
          \/ expr[k][1] \in {"field", "Parent", "index", "paren"}
          \/ expr[k][1] = "method" /\ expr[k][2] \in IndexingMethods

\* the names bound by the first k top-level statements that are
\* `local x = <instance-path-expression>`
RECURSIVE TopLevelAliases(_, _)
TopLevelAliases(block, k) ==
    IF k = 0 THEN {}
    ELSE LET earlier == TopLevelAliases(block, k - 1)
         IN  IF /\ block[k][1] = "local"
                /\ InstancePathExpression(block[k][3], earlier)
             THEN earlier \cup {block[k][2]}
             ELSE earlier

\* C35: the collector yields exactly the names bound by the top-level
\* statements `local x = <instance-path-expression>` of the block; a local
\* declared in a nested block or in a function body is not in the set.
C35_TopLevelAliasesOnly ==
    collected.some =>
        collected.value = TopLevelAliases(collector_block, Len(collector_block))

\* no statement of the block holds another block
NoNestedBlock == \A k \in 1..Len(collector_block) : collector_block[k][1] = "local"

\* the same for the blocks whose statements are all at the top level
AliasesWithoutNestedBlocks == NoNestedBlock => C35_TopLevelAliasesOnly

(***************************************************************************)
(* parse_expression_to_instance_path of the bundler (mod.rs 89-319) and of *)
(* the convert_require rule (convert_require/roblox_require_mode.rs        *)
(* 87-195), on expressions written as sequences of steps as above.  Both   *)
(* are recursive functions without state: a call of                        *)
(* resolve_identifier_to_instance_path for a name that is made while a     *)
(* call for the same name is still running repeats that call for ever,     *)
(* until the stack of the process overflows.  `active` holds the names     *)
(* whose resolution is running.                                            *)
(***************************************************************************)
StackOverflow == [some |-> FALSE, overflow |-> TRUE]
Overflowed(found) == "overflow" \in DOMAIN found

ChildMethods == {"GetService", "WaitForChild", "FindFirstChild"}

\* mod.rs 199-222 and crm 148-163: the method of the call decides, after the
\* prefix has been parsed
ParseCallToInstancePath(parser, step, base) ==
    IF step[1] # "method" THEN None
    ELSE IF step[2] \in ChildMethods THEN Some(WithChild(base, step[3]))
    ELSE IF step[2] = "FindFirstAncestor" /\ parser = "bundle"
         THEN Some(WithAncestor(base, step[3]))
    ELSE None

RECURSIVE ParseExpressionToInstancePath(_, _, _, _, _)
RECURSIVE ResolveInStatements(_, _, _, _, _, _)

\* mod.rs 265-318: in the current block, then in the root block;
\* crm 181-195: in the current block
ResolveIdentifier(parser, name, current, root, active) ==
    IF name \in active THEN StackOverflow
    ELSE LET in_current == ResolveInStatements(parser, name, current, current, root,
                                               active \cup {name})
         IN  IF parser = "convert" \/ in_current.some \/ Overflowed(in_current)
             THEN in_current
             ELSE ResolveInStatements(parser, name, root, current, root, active \cup {name})

\* mod.rs 266-306 and crm 183-193: the first local of that name whose value
\* parses is the path
ResolveInStatements(parser, name, statements, current, root, active) ==
    IF statements = <<>> THEN None
    ELSE LET local == Head(statements)
             found == IF local[2] = name
                      THEN ParseExpressionToInstancePath(parser, local[3], current, root, active)
                      ELSE None
         IN  IF found.some \/ Overflowed(found) THEN found
             ELSE ResolveInStatements(parser, name, Tail(statements), current, root, active)

\* mod.rs 89-197 and crm 87-146: parse_expression_to_instance_path and
\* parse_prefix_to_instance_path
ParseExpressionToInstancePath(parser, expr, current, root, active) ==
    LET step == Last(expr)
        base == ParseExpressionToInstancePath(parser, Front(expr), current, root, active)
    IN  IF Len(expr) = 1
        THEN IF step[1] = "script" THEN Some(FromScript)
             ELSE IF step[1] = "game" THEN Some(FromRoot)
             ELSE IF step[1] = "id"
                  THEN ResolveIdentifier(parser, step[2], current, root, active)
             ELSE None
        ELSE IF step[1] = "paren" \/ ~base.some THEN base
        ELSE IF step[1] = "Parent" THEN Some(WithParent(base.value))
        ELSE IF step[1] \in {"field", "index"} THEN Some(WithChild(base.value, step[2]))
        ELSE IF step[1] = "index_expr" THEN None
        ELSE ParseCallToInstancePath(parser, step, base.value)

MaxLocals == 2     \* local statements of the block the call stands in

InitializerSteps ==
    {<<"field", 1>>, <<"Parent">>, <<"paren">>, <<"method", "FindFirstAncestor", 1>>}
Initializers ==
    {<<r>> : r \in AliasRoots} \cup {<<r, s>> : r \in AliasRoots, s \in InitializerSteps}
ParseLocals == {<<"local", n, e>> : n \in AliasNames, e \in Initializers}

NotParsed == <<>>
Parsed(found) == <<found>>

ParseInit ==
    /\ \E n \in 0..MaxLocals : parse_block \in [1..n -> ParseLocals]
    /\ require_argument \in AliasExpressions
    /\ bundle_path = NotParsed
    /\ convert_path = NotParsed
    /\ WorkerUnused
    /\ BundlerUnused
    /\ SourcemapUnused
    /\ ExcludeUnused
    /\ RuntimeUnused
    /\ ComputeUnused
    /\ InternUnused
    /\ SourcesUnused
    /\ ScopeUnused
    /\ ManifestUnused
    /\ ProcessorUnused
    /\ CollectorUnused
    /\ LinesUnused

\* require_call of the bundler (mod.rs 403-408): the single argument is
\* parsed; the call stands in the root block of its file
BundlerParses ==
    /\ bundle_path = NotParsed
    /\ bundle_path' = Parsed(ParseExpressionToInstancePath("bundle", require_argument,
                                                           parse_block, parse_block, {}))
    /\ UNCHANGED <<parse_block, require_argument, convert_path>>
    /\ UNCHANGED notParse

\* find_require of the convert_require rule (crm 63-69)
ConvertRequireParses ==
    /\ convert_path = NotParsed
    /\ convert_path' = Parsed(ParseExpressionToInstancePath("convert", require_argument,
                                                            parse_block, parse_block, {}))
    /\ UNCHANGED <<parse_block, require_argument, bundle_path>>
    /\ UNCHANGED notParse

ParseNext ==
    \/ BundlerParses
    \/ ConvertRequireParses

SpecParse == ParseInit /\ [][ParseNext]_vars

(***************************************************************************)
(* Claims on the two parsers.                                              *)
(***************************************************************************)
\* the component a step appends, by the rules: .Parent gives Parent, another
\* field and ["s"] give Child, GetService, WaitForChild and FindFirstChild
\* give Child, FindFirstAncestor gives Ancestor
AppendsComponent(step) ==
    \/ step[1] \in {"Parent", "field", "index"}
    \/ step[1] = "method" /\ step[2] \in IndexingMethods

ComponentOf(step) ==
    IF step[1] = "Parent" THEN ParentComponent
    ELSE IF step[1] = "method" /\ step[2] = "FindFirstAncestor" THEN AncestorComponent(step[3])
    ELSE IF step[1] = "method" THEN ChildComponent(step[3])
    ELSE ChildComponent(step[2])

\* the path the rules give an expression that starts with script or game, if
\* they give one; parentheses are left out
PathByTheRules(expr) ==
    LET steps == SelectSeq(Tail(expr), LAMBDA step : step[1] # "paren")
    IN  IF /\ expr[1][1] \in {"script", "game"}
           /\ \A k \in 1..Len(steps) : AppendsComponent(steps[k])
        THEN Some([root |-> IF expr[1][1] = "script" THEN "Script" ELSE "Root",
                   components |-> [k \in 1..Len(steps) |-> ComponentOf(steps[k])]])
        ELSE None

NamesLocal(expr) == expr[1][1] = "id"

\* the bundler's parser follows the rules
BundlerFollowsRules ==
    bundle_path # NotParsed /\ ~NamesLocal(require_argument) =>
        bundle_path[1] = PathByTheRules(require_argument)

\* C33: the bundler's parser gives an argument the path of the rules and no
\* path where the rules give none, and the parser of the convert_require
\* rule gives the same path for the same argument.
C33_OneGrammarTwoParsers ==
    /\ BundlerFollowsRules
    /\ bundle_path # NotParsed /\ convert_path # NotParsed => bundle_path = convert_path

UsesFindFirstAncestor(expr) ==
    \E k \in 1..Len(expr) : expr[k][1] = "method" /\ expr[k][2] = "FindFirstAncestor"

\* the same where neither the argument nor a local calls FindFirstAncestor
SameWithoutFindFirstAncestor ==
    (/\ ~UsesFindFirstAncestor(require_argument)
     /\ \A k \in 1..Len(parse_block) : ~UsesFindFirstAncestor(parse_block[k][3]))
        => C33_OneGrammarTwoParsers

\* C38: resolving the argument of a require call ends for every block, also
\* where the value of a local names the local itself or where locals name
\* each other in a circle.
C38_ResolutionTerminates ==
    /\ bundle_path # NotParsed => ~Overflowed(bundle_path[1])
    /\ convert_path # NotParsed => ~Overflowed(convert_path[1])

\* a local of name n has a value that starts with the name m
RefersTo(n, m) ==
    \E k \in 1..Len(parse_block) :
        parse_block[k][2] = n /\ parse_block[k][3][1] = <<"id", m>>

\* no local is reached from itself (NAliasNames = 2: by one or by two steps)
NoCircle ==
    \A n, m \in AliasNames : ~RefersTo(n, n) /\ ~(RefersTo(n, m) /\ RefersTo(m, n))

\* the same for the blocks whose locals do not name each other in a circle
TerminatesWithoutCircle == NoCircle => C38_ResolutionTerminates

\* ---------------------------------------------------------------------------
\* BuildModuleDefinitions::apply: the line-mapping segments
\* (bundle/roblox_require_mode/module_definitions.rs 163-239)
\* ---------------------------------------------------------------------------

MaxModuleBlocks == 2
MaxBlockLines == 3
MaxTypeLines == 2

\* what lines::block_first and lines::block_total say of a block: the line of
\* its first token (0 when no token carries a line) and its full line count
BlockLines ==
    {[first |-> 0, total |-> t] : t \in 0..MaxBlockLines}
        \cup {l \in [first : 1..MaxBlockLines, total : 1..MaxBlockLines] : l.first <= l.total}

\* usize::saturating_sub
SaturatingSub(a, b) == IF a >= b THEN a - b ELSE 0

\* context.current_path(), the path of the entry block's segment; a module's
\* is its place in module_definitions
CurrentPath == 0

\* module_definitions.rs 187-199 and 208-220: the segment a block is given
\* before its tokens are shifted, none when it has no first line
Segment(lines, path, shift_lines) ==
    LET original_first == lines.first
        original_last == lines.total
    IN  IF original_last >= original_first /\ original_first # 0
        THEN LET bundle_start == IF shift_lines + 1 >= 1 THEN shift_lines + 1 ELSE 1
                 span == SaturatingSub(original_last, original_first) + 1
                 bundle_end == bundle_start + SaturatingSub(span, 1)
             IN  <<[bundle_start |-> bundle_start,
                    bundle_end |-> bundle_end,
                    source |-> [path |-> path, shift |-> shift_lines]]>>
        ELSE <<>>

\* module_definitions.rs 183-205: the loop over module_definitions.values_mut()
\* from the k-th on; what it gives: the segments, the shifts and shift_lines
RECURSIVE ModulesLoop(_, _, _, _, _)
ModulesLoop(blocks, k, shift_lines, segments, shifts) ==
    IF k > Len(blocks)
    THEN [shift_lines |-> shift_lines, segments |-> segments, shifts |-> shifts]
    ELSE LET inserted_lines == blocks[k].total
         IN  ModulesLoop(blocks, k + 1, shift_lines + inserted_lines,
                         segments \o Segment(blocks[k], k, shift_lines),
                         Append(shifts, shift_lines))

LinesInit ==
    /\ type_lines \in 0..MaxTypeLines
    /\ \E n \in 0..MaxModuleBlocks : definition_lines \in [1..n -> BlockLines]
    /\ entry_lines \in BlockLines
    /\ line_mapping = <<>>
    /\ shifted = <<>>
    /\ WorkerUnused
    /\ BundlerUnused
    /\ SourcemapUnused
    /\ ExcludeUnused
    /\ RuntimeUnused
    /\ ComputeUnused
    /\ InternUnused
    /\ SourcesUnused
    /\ ScopeUnused
    /\ ManifestUnused
    /\ ProcessorUnused
    /\ CollectorUnused
    /\ ParseUnused

\* module_definitions.rs 173-222: apply, as far as lines go; with no module
\* it returns at once
ApplyDefinitions ==
    /\ shifted = <<>>
    /\ IF definition_lines = <<>>
       THEN UNCHANGED <<line_mapping, shifted>>
       ELSE LET modules == ModulesLoop(definition_lines, 1, type_lines, <<>>, <<>>)
            IN  /\ line_mapping' = modules.segments
                        \o Segment(entry_lines, CurrentPath, modules.shift_lines)
                /\ shifted' = Append(modules.shifts, modules.shift_lines)
    /\ UNCHANGED <<type_lines, definition_lines, entry_lines>>
    /\ UNCHANGED notLines

LinesNext == ApplyDefinitions

SpecLines == LinesInit /\ [][LinesNext]_vars

\* the blocks apply has put together, the entry block last, and the path of each
AppliedBlocks == Append(definition_lines, entry_lines)

PathOfBlock(b) == IF b = Len(AppliedBlocks) THEN CurrentPath ELSE b

\* the full line counts of the modules before the k-th
RECURSIVE LinesBefore(_)
LinesBefore(k) == IF k <= 1 THEN 0 ELSE definition_lines[k - 1].total + LinesBefore(k - 1)

\* the segments recorded for block b
SegmentsOf(b) == {i \in 1..Len(line_mapping) : line_mapping[i].source.path = PathOfBlock(b)}

\* the output lines the tokens of block b are on once shifted
OutputLines(b) ==
    (AppliedBlocks[b].first + shifted[b])..(AppliedBlocks[b].total + shifted[b])

Covers(segment, b) ==
    /\ segment.source.shift = shifted[b]
    /\ \A line \in OutputLines(b) : segment.bundle_start <= line /\ line <= segment.bundle_end

ShiftsAsCounted ==
    \A b \in 1..Len(AppliedBlocks) : shifted[b] = type_lines + LinesBefore(b)

EntryRecordedLast ==
    \A i \in 1..Len(line_mapping) :
        line_mapping[i].source.path = CurrentPath => i = Len(line_mapping)

NoOverlap ==
    \A i, j \in 1..Len(line_mapping) :
        i < j => line_mapping[i].bundle_end < line_mapping[j].bundle_start

\* C34: once apply has run, every block with a first line has one segment, and
\* it holds the block's shift and every output line from the block's first line
\* plus the shift to its last line plus the shift; the k-th module's shift is
\* the type-declaration lines plus the line counts of the modules before it, the
\* entry block's segment is the last one recorded, and no two segments overlap
C34_SegmentsCoverShiftedBlocks ==
    shifted # <<>> =>
        /\ \A b \in 1..Len(AppliedBlocks) :
               AppliedBlocks[b].first # 0 =>
                   /\ Cardinality(SegmentsOf(b)) = 1
                   /\ \A i \in SegmentsOf(b) : Covers(line_mapping[i], b)
        /\ ShiftsAsCounted
        /\ EntryRecordedLast
        /\ NoOverlap

\* the shifts, the order and the disjointness hold whatever the blocks are
ShiftsOrderAndDisjointness ==
    shifted # <<>> => ShiftsAsCounted /\ EntryRecordedLast /\ NoOverlap

\* a block whose first token is on line 1 is covered by its segment
CoveredWhenStartingOnLineOne ==
    shifted # <<>> =>
        \A b \in 1..Len(AppliedBlocks) :
            AppliedBlocks[b].first = 1 =>
                /\ Cardinality(SegmentsOf(b)) = 1
                /\ \A i \in SegmentsOf(b) : Covers(line_mapping[i], b)

\* a block that starts further down has a segment that ends before its last line
SegmentEndsAboveLastLine ==
    shifted # <<>> =>
        \A b \in 1..Len(AppliedBlocks) :
            AppliedBlocks[b].first > 1 =>
                \A i \in SegmentsOf(b) :
                    line_mapping[i].bundle_end
                        = AppliedBlocks[b].total + shifted[b] - (AppliedBlocks[b].first - 1)

=============================================================================
